---- MODULE Spec2Model ----
(***************************************************************************)
(* Verification model of drivers/cpufreq/qcom-cpufreq-hw.c: the OSM        *)
(* bring-up (table generation, LUT programming, ACD handshake, setup       *)
(* registers), the runtime control register accesses, and the LMh          *)
(* throttle notifier (interrupt handler / poll worker / teardown).         *)
(*                                                                         *)
(* Three specifications share the variables:                              *)
(*   SpecThrottle  the throttle notifier of one frequency domain           *)
(*   SpecRuntime   SetIndex / GetCurrent / FastPath on a read-back table   *)
(*   Spec          qcom_cpufreq_hw_cpu_init with the OSM bring-up          *)
(* A specification leaves the variables of the others at their initial     *)
(* values.                                                                 *)
(***************************************************************************)
EXTENDS Integers, Sequences, FiniteSets, TLC

(***************************************************************************)
(* Program constants                                                       *)
(***************************************************************************)
LUT_MAX_ENTRIES == 40
VOTE_MASK == 1023
VOTE_KHZ == 19200
HZ_PER_KHZ == 1000
POLL_DELAY_MS == 10
ENXIO == 6
EINVAL == 22
ENODEV == 19
ERANGE == 34

\* CPUFREQ_TABLE_END (~1u) and CPUFREQ_ENTRY_INVALID (~0u) are the two largest
\* unsigned 32-bit values. TLC's integers are 32-bit signed, so they are
\* represented by the two largest values TLC can hold: every frequency of the
\* model is far below both, which keeps every comparison the code makes.
CPUFREQ_ENTRY_INVALID == 2147483647
CPUFREQ_TABLE_END == 2147483646

(***************************************************************************)
(* Bounds of the model                                                     *)
(***************************************************************************)
\* hardware votes the throttle specification lets the LMh hardware report
MaxVoteChoice == 5
\* the largest number of corners of a generated operating-point table
MaxOpps == 5

Min(a, b) == IF a < b THEN a ELSE b
Max(a, b) == IF a > b THEN a ELSE b

SetMax(S) == CHOOSE x \in S : \A y \in S : y <= x
SetMin(S) == CHOOSE x \in S : \A y \in S : x <= y

(***************************************************************************)
(* OSM bring-up: program constants                                         *)
(***************************************************************************)
INT_MAX == 2147483647
U8_MAX == 255
ENOENT == 2
ENOMEM == 12
EBUSY == 16
ENODATA == 61
ETIMEDOUT == 110
EIO == 5
SEQ_APM_THRESH_VC == 15
SEQ_APM_THRESH_PREVC == 31
SEQ_MEM_ACC_LVAL == 32
SEQ_MEM_ACC_0 == 55
SEQ_APM_CROSSOVER_VC == 72
SEQ_APM_PARAM == 76
SEQ_MEM_ACC_CROSSOVER_VC == 88
SEQ_MEM_ACC_MAX_LEVELS == 4
APM_PARAM_BASE == 57
MIN_MILLIVOLTS == 150
MAX_MILLIVOLTS == 1400
\* xo_rate: the rate of the "xo" clock, in kHz
XO_RATE_KHZ == 19200
\* bit positions of the LUT fields, as multipliers
LUT_L_VAL_RANGE == 256
LUT_CORE_COUNT_SHIFT == 65536
LUT_CORE_COUNT_RANGE == 8
LUT_VOLT_VC_SHIFT == 65536
LUT_VOLT_VC_RANGE == 64
LUT_VOLT_RANGE == 4096
LUT_PLL_DIV_SHIFT == 16777216
LUT_PLL_DIV_RANGE == 4
LUT_SRC_8998_SHIFT == 67108864
LUT_SRC_845_SHIFT == 1073741824
LUT_SRC_RANGE == 4
\* cpu_hw_rate: the rate of the "alternate" clock over clk_hw_div, in kHz
CPU_HW_RATE_KHZ == 300000
LUT_TURBO_IND == 1
\* setup values of qcom_cpufreq_hw_osm_setup
OSM_XO_RATIO_VAL == 9
CYCLE_COUNTER_USE_XO_EDGE == 256
PLL_WAIT_LOCK_TIME_NS == 2000
SAFE_FREQ_WAIT_NS == 1000
DEXT_DECREMENT_WAIT_NS == 200
BOOST_SYNC_DELAY == 5
HYSTERESIS_CC_NS == 200
HYSTERESIS_LLM_NS == 65535
\* BIT(3) | BIT(17) | BIT(31) as a signed 32-bit word
DROOP_CTRL_VAL == -2147352568
DROOP_TIMER_NS == 100
DROOP_WAIT_RELEASE_TIMER_NS == 50
DROOP_RELEASE_TIMER_NS == 1
\* CC_BOOST_EN | PS_BOOST_EN | DCVS_BOOST_EN | WFX_DROOP_EN |
\* PC_RET_EXIT_DROOP_EN | DCVS_DROOP_EN
PDN_FSM_EN == 63
PLL_OVERRIDE_DROOP_EN == 1
ACD_WRITE_CTL_UPDATE_EN == 1

(***************************************************************************)
(* State                                                                   *)
(***************************************************************************)
VARIABLES
    \* ---- struct qcom_cpufreq_data, throttle part, and its environment
    throttle_irq,       \* data->throttle_irq (0 after kzalloc)
    irq_requested,      \* request_threaded_irq succeeded, free_irq not yet run
    irq_depth,          \* disable depth of the interrupt line
    irq_pc,             \* position of the threaded interrupt handler
    work_timer,         \* throttle_work: -1 not pending, else ms until it runs
    work_canceling,     \* cancel_delayed_work_sync owns the work's pending bit
    poll_pc,            \* position of the poll worker in qcom_lmh_dcvs_notify
    poll_freq,          \* local freq of the running poll: the vote in kHz
    poll_dev,           \* local dev of the running poll is a CPU device
    poll_freq_hz,       \* local freq_hz of the running poll: the rate (kHz) a
                        \* lookup stored in it, -1 while it holds the product
                        \* of line 1144
    throttled_freq,     \* local throttled_freq of the running poll (kHz)
    thermal_pressure,   \* last value given to arch_update_thermal_pressure
    cancel_throttle,    \* data->cancel_throttle
    throttle_lock,      \* data->throttle_lock: "free", "poll" or "exit"
    exit_pc,            \* position of qcom_cpufreq_hw_cpu_exit and of the
                        \* qcom_cpufreq_hw_lmh_exit it calls
    free_unclaimed,     \* free_irq was called on a line never claimed
    policy_cpus,        \* policy->cpus holds a CPU
    current_vote,       \* register reg_current_vote
    opp_table,          \* present: the CPU device has an OPP table;
                        \* rates: its enabled OPP rates in kHz
    \* ---- runtime control
    perf_state,         \* register reg_perf_state
    freq_table,         \* policy->freq_table: [0..LUT_MAX_ENTRIES -> kHz]
    run_op,             \* the runtime operation that returned last
    last_write,         \* which operation wrote reg_perf_state last
    last_index,         \* the index that operation was called with
    get_ret,            \* what the last qcom_cpufreq_hw_get returned
    set_ret,            \* what the last qcom_cpufreq_hw_target_index returned
    bw_vote,            \* the last qcom_cpufreq_set_bw: called, ret
    \* ---- domain initialization (qcom_cpufreq_hw_cpu_init)
    platform,           \* what the device tree, OPP core and CPR hand out
    init_pc,            \* position of qcom_cpufreq_hw_cpu_init
    init_ret,           \* its return value once it has returned
    wlog,               \* register accesses and scm calls so far, in order
    lut_regs,           \* the LUT registers: [0..39 -> row]
    enable_reg,         \* register reg_enable
    wl,                 \* what qcom_cpufreq_hw_write_lut computed and returned
    acd_ret,            \* what qcom_cpufreq_hw_acd_init returned
    icc_scaling_enabled, \* the global of that name
    resources           \* what the policy holds: region (request_mem_region),
                        \* base (ioremap), data (kzalloc, policy->driver_data),
                        \* table (kcalloc of read_lut, policy->freq_table)

throttle_vars == <<throttle_irq, irq_requested, irq_depth, irq_pc, work_timer,
                   work_canceling, poll_pc, poll_freq, poll_dev,
                   poll_freq_hz, throttled_freq,
                   thermal_pressure, cancel_throttle, throttle_lock, exit_pc,
                   free_unclaimed, policy_cpus, current_vote, opp_table>>
runtime_vars == <<perf_state, freq_table, run_op, last_write, last_index, get_ret,
                  set_ret, bw_vote>>
bringup_vars == <<platform, init_pc, init_ret, wlog, lut_regs, enable_reg, wl,
                  acd_ret, icc_scaling_enabled, resources>>
vars == <<throttle_vars, runtime_vars, bringup_vars>>

(***************************************************************************)
(* Runtime control                                                         *)
(***************************************************************************)
\* No bandwidth vote was requested yet.
NoBwVote == [called |-> FALSE, ret |-> 0]

\* qcom_cpufreq_set_bw. dev_ok: get_cpu_device finds the CPU device;
\* opp_found: dev_pm_opp_find_freq_exact finds an enabled OPP of that
\* frequency, else it returns -ERANGE; set_opp_ret: what dev_pm_opp_set_opp
\* returns.
qcom_cpufreq_set_bw(dev_ok, opp_found, set_opp_ret) ==
    IF ~dev_ok THEN -ENODEV
    ELSE IF ~opp_found THEN -ERANGE
    ELSE set_opp_ret

\* Mutant of TargetIndexReturn: the result of the bandwidth vote is returned.
TargetIndexReturn_Propagate(bw_ret) == bw_ret

\* Line 367: qcom_cpufreq_hw_target_index ignores what qcom_cpufreq_set_bw
\* returned and returns 0.
TargetIndexReturn(bw_ret) == 0

\* qcom_cpufreq_hw_get: 0 when cpufreq_cpu_get_raw finds no policy for the
\* CPU (lines 382-384, policy says whether it finds one); else read the
\* performance state register, clamp it to the last LUT slot, and map it
\* through the frequency table.
\* Mutant of qcom_cpufreq_hw_get_index: the row after the one requested.
qcom_cpufreq_hw_get_index_Next(reg) == Min(reg + 1, LUT_MAX_ENTRIES - 1)

qcom_cpufreq_hw_get_index(reg) == Min(reg, LUT_MAX_ENTRIES - 1)
qcom_cpufreq_hw_get(policy, tbl, reg) ==
    IF ~policy THEN 0 ELSE tbl[qcom_cpufreq_hw_get_index(reg)]

(***************************************************************************)
(* Operating-point table reader: qcom_cpufreq_gen_params                   *)
(*                                                                         *)
(* The platform is a record:                                               *)
(*   genpd        outcome of attaching the CPR power domain                *)
(*   gpd_opp_cnt  what dev_pm_opp_get_opp_count returns                    *)
(*   opps         the entries dev_pm_opp_find_freq_ceil yields, ascending, *)
(*                each [rate (kHz), uV, np, override, spare, pll_div];     *)
(*                -1 stands for an absent device-tree property             *)
(*   apm_uV, acc_uV  the two CPR thresholds                                *)
(*   cpu_count    CPUs of the frequency domain                             *)
(*   soc          the SoC variant                                          *)
(*   osm_rsrc     the "osm-domainN" resource exists                        *)
(*   acd_rsrc     the "osm-acdN" region exists and maps                    *)
(*   oob_clobbered  an element stored past the end of hw_tbl is overwritten *)
(*                before it is read back                                   *)
(***************************************************************************)
\* The three SoC variants of qcom_cpufreq_hw_match and what the driver reads
\* from their qcom_cpufreq_soc_data.
SocVariants == {"qcom", "msm8998", "epss"}
uses_tz(soc) == soc # "msm8998"
SrcShift(soc) == IF soc = "msm8998" THEN LUT_SRC_8998_SHIFT ELSE LUT_SRC_845_SHIFT

Row(volt, freq, ovr, spare) ==
    [volt_lut_val |-> volt, freq_lut_val |-> freq,
     override_val |-> ovr, spare_val |-> spare]

\* FIELD_PREP(LUT_VOLT_VC, i) | FIELD_PREP(LUT_VOLT, millivolts)
VoltLutVal(i, millivolts) ==
    (i % LUT_VOLT_VC_RANGE) * LUT_VOLT_VC_SHIFT + (millivolts % LUT_VOLT_RANGE)

\* f_src << (ffs(src_mask) - 1) | rate / xo_rate | FIELD_PREP(LUT_CORE_COUNT,
\* cpu_count) | FIELD_PREP(LUT_PLL_DIV, pll_div). The L-value of every rate
\* of the model is below 2^16, so the fields do not overlap and the ORs add.
FreqLutVal(soc, i, rate, cpu_count, pll_div) ==
    (IF i = 0 THEN 0 ELSE 1) * SrcShift(soc)
    + (rate \div XO_RATE_KHZ)
    + (cpu_count % LUT_CORE_COUNT_RANGE) * LUT_CORE_COUNT_SHIFT
    + (pll_div % LUT_PLL_DIV_RANGE) * LUT_PLL_DIV_SHIFT

\* FIELD_GET of the fields read_lut and write_lut take out of a LUT word
LutLval(data) == data % LUT_L_VAL_RANGE
LutCoreCount(data) == (data \div LUT_CORE_COUNT_SHIFT) % LUT_CORE_COUNT_RANGE
\* LUT words are 32-bit; a word with bit 31 set is held as the negative
\* integer of the same bit pattern, which \div and % decode alike.
LutSrc(soc, data) == (data \div SrcShift(soc)) % LUT_SRC_RANGE
LutVolt(data) == data % LUT_VOLT_RANGE

\* Mutant of AccCandidateInvalid: only a corner that was not found falls
\* back to "not required".
AccCandidateInvalid_OnlyUnfound(acc_uV, acc_vc) ==
    acc_uV # INT_MAX /\ acc_vc < 0

\* Lines 619-624: a customized MEM-ACC corner that was not found, or lies
\* below the minimum number of corners, falls back to "not required".
AccCandidateInvalid(acc_uV, acc_vc) ==
    acc_uV # INT_MAX /\ acc_vc < SEQ_MEM_ACC_MAX_LEVELS - 1

\* Mutant of CrossoverCandidate: every corner at or above the threshold
\* replaces the candidate, so the last one is kept.
CrossoverCandidate_Last(uV, threshold_uV, vc, i) ==
    IF uV >= threshold_uV THEN i ELSE vc

\* Lines 566-569: `if (millivolts >= apm_uV && *apm_vc < 0) *apm_vc = i`,
\* and the same for acc_uV and *acc_vc.
CrossoverCandidate(uV, threshold_uV, vc, i) ==
    IF uV >= threshold_uV /\ vc < 0 THEN i ELSE vc

\* The for loop of lines 525-611, from iteration i on. st holds the table
\* filled so far and the two crossover candidates. The result says how the
\* loop ended: "end" (condition false or break), "goto" (goto detach_gpd with
\* ret) or "return" (the direct return of line 576). Iteration i fills
\* entry = *hw_tbl + i, so the rows filled so far are always i.
RECURSIVE GenParamsLoop(_, _, _, _, _)
GenParamsLoop(pf, apm_uV, acc_uV, i, st) ==
    IF i > pf.gpd_opp_cnt \/ i >= Len(pf.opps) \/ Len(st.tbl) # i THEN
        [how |-> "end", ret |-> 0, i |-> i, tbl |-> st.tbl,
         apm_vc |-> st.apm_vc, acc_vc |-> st.acc_vc]
    ELSE LET opp == pf.opps[i + 1]
             apm_vc == CrossoverCandidate(opp.uV, apm_uV, st.apm_vc, i)
             acc_vc == CrossoverCandidate(opp.uV, acc_uV, st.acc_vc, i)
             millivolts == opp.uV \div 1000
             entry == Row(VoltLutVal(i, millivolts),
                          FreqLutVal(pf.soc, i, opp.rate, pf.cpu_count,
                                     IF opp.pll_div < 0 THEN 0 ELSE opp.pll_div),
                          opp.override,
                          IF opp.spare < 0 THEN 0 ELSE opp.spare)
         IN  IF ~opp.np THEN
                 [how |-> "goto", ret |-> -ENOENT, i |-> i, tbl |-> st.tbl,
                  apm_vc |-> st.apm_vc, acc_vc |-> st.acc_vc]
             ELSE IF opp.override < 0 THEN
                 [how |-> "goto", ret |-> -EINVAL, i |-> i, tbl |-> st.tbl,
                  apm_vc |-> st.apm_vc, acc_vc |-> st.acc_vc]
             ELSE IF millivolts < MIN_MILLIVOLTS \/ millivolts > MAX_MILLIVOLTS THEN
                 [how |-> "return", ret |-> -EINVAL, i |-> i, tbl |-> st.tbl,
                  apm_vc |-> apm_vc, acc_vc |-> acc_vc]
             ELSE GenParamsLoop(pf, apm_uV, acc_uV, i + 1,
                                [tbl |-> Append(st.tbl, entry),
                                 apm_vc |-> apm_vc, acc_vc |-> acc_vc])

\* qcom_cpufreq_gen_params. The caller's apm_vc, acc_vc and num_entries are
\* INT_MAX, U8_MAX and 0 on entry and stay so on the early exits. oob says
\* that the loop filled hw_tbl[gpd_opp_cnt], one element past the array
\* devm_kmalloc_array allocated.
qcom_cpufreq_gen_params(pf) ==
    LET early(ret) == [ret |-> ret, hw_tbl |-> <<>>, apm_vc |-> INT_MAX,
                       acc_vc |-> U8_MAX, num_entries |-> 0, oob |-> FALSE]
    IN  IF pf.genpd = "attach_failed" THEN early(-ENODEV)
        ELSE IF pf.genpd = "no_vdev" THEN early(-EINVAL)
        ELSE IF pf.genpd = "no_cpr_data" THEN early(-ENODATA)
        ELSE IF pf.gpd_opp_cnt < 2 THEN
            early(IF pf.gpd_opp_cnt > 0 THEN -EINVAL ELSE pf.gpd_opp_cnt)
        ELSE IF pf.apm_uV <= 0 THEN early(-EINVAL)
        ELSE LET acc_uV == IF pf.acc_uV <= 0 THEN INT_MAX ELSE pf.acc_uV
                 acc0 == IF pf.acc_uV <= 0 THEN U8_MAX ELSE -1
                 l == GenParamsLoop(pf, pf.apm_uV, acc_uV, 0,
                                    [tbl |-> <<>>, apm_vc |-> -1, acc_vc |-> acc0])
                 acc_vc == IF AccCandidateInvalid(acc_uV, l.acc_vc)
                           THEN U8_MAX ELSE l.acc_vc
                 out(ret, acc, n) ==
                     [ret |-> ret, hw_tbl |-> l.tbl, apm_vc |-> l.apm_vc,
                      acc_vc |-> acc, num_entries |-> n,
                      oob |-> Len(l.tbl) > pf.gpd_opp_cnt]
             IN  IF l.how # "end" THEN out(l.ret, l.acc_vc, 0)
                 ELSE IF l.i < pf.gpd_opp_cnt THEN out(-EINVAL, acc_vc, 0)
                 ELSE out(0, acc_vc, l.i % (U8_MAX + 1))

(***************************************************************************)
(* Hardware table programmer and crossover derivation:                     *)
(* qcom_cpufreq_hw_write_lut                                               *)
(***************************************************************************)
\* One entry of the ordered log of register accesses. op is "writel",
\* "readl" or "scm" (qcom_scm_io_writel); reg names the register, idx is the
\* LUT row or the byte offset from the sequencer base; ret is the result of an scm call.
Acc(op, reg, idx, val, ret) ==
    [op |-> op, reg |-> reg, idx |-> idx, val |-> val, ret |-> ret]
Writel(reg, idx, val) == Acc("writel", reg, idx, val, 0)
\* SEQUENCER_REG(base, n) is base + (n * 4): the byte offset of register n.
SEQUENCER_REG(n) == n * 4
\* SEQ_MEMACC_REG(base, n) expands to SEQUENCER_REG(base, SEQ_MEM_ACC_0 + n);
\* the macro argument is not parenthesised, so the offset is 55 + n * 4.
SEQ_MEMACC_REG(n) == SEQ_MEM_ACC_0 + n * 4
ScmWrite(off, val) == Acc("scm", "sequencer", off, val, 0)

\* Mutant of LutEntry: the padding repeats the first row instead of the last.
LutEntry_PadFirst(hw_tbl, num_entries, i) ==
    IF i < num_entries THEN hw_tbl[i + 1] ELSE hw_tbl[1]

\* Mutant of LutEntry: the padding slots are written with zeroes.
LutEntry_PadZero(hw_tbl, num_entries, i) ==
    IF i < num_entries THEN hw_tbl[i + 1] ELSE Row(0, 0, 0, 0)

\* Lines 839-842: the row written to LUT slot i.
LutEntry(hw_tbl, num_entries, i) ==
    IF i < num_entries THEN hw_tbl[i + 1] ELSE hw_tbl[num_entries]

\* Lines 844-848 over the whole for loop of lines 831-877: the five register
\* writes of each of the LUT_MAX_ENTRIES slots, slot by slot.
LutWrites(hw_tbl, num_entries) ==
    [k \in 1..(5 * LUT_MAX_ENTRIES) |->
        LET i == (k - 1) \div 5
            entry == LutEntry(hw_tbl, num_entries, i)
        IN  CASE (k - 1) % 5 = 0 -> Writel("index", i, i)
              [] (k - 1) % 5 = 1 -> Writel("volt_lut", i, entry.volt_lut_val)
              [] (k - 1) % 5 = 2 -> Writel("freq_lut", i, entry.freq_lut_val)
              [] (k - 1) % 5 = 3 -> Writel("override", i, entry.override_val)
              [] OTHER -> Writel("spare", i, entry.spare_val)]

\* Mutant of RecordsPair: a spare value equal to the last recorded one
\* records a pair too.
RecordsPair_NonStrict(entry, last_spare, acc_idx) ==
    ~(entry.spare_val < last_spare \/ acc_idx >= SEQ_MEM_ACC_MAX_LEVELS - 1)

\* Lines 867-869 negated: slot i records a MEM-ACC pair.
RecordsPair(entry, last_spare, acc_idx) ==
    ~(entry.spare_val <= last_spare \/ acc_idx >= SEQ_MEM_ACC_MAX_LEVELS - 1)

\* Lines 867-876 over the same loop, from slot i on: the values stored in
\* acc_val[0..acc_idx).
RECURSIVE AccPairs(_, _, _, _, _)
AccPairs(hw_tbl, num_entries, i, last_spare, acc_val) ==
    IF i >= LUT_MAX_ENTRIES THEN acc_val
    ELSE LET entry == LutEntry(hw_tbl, num_entries, i)
         IN  IF RecordsPair(entry, last_spare, Len(acc_val)) THEN
                 AccPairs(hw_tbl, num_entries, i + 1, entry.spare_val,
                          acc_val \o <<i - 1, i>>)
             ELSE AccPairs(hw_tbl, num_entries, i + 1, last_spare, acc_val)

\* Mutant of CustomAccApplies: the "not required" sentinel is not excluded.
CustomAccApplies_NoSentinel(acc_vc) == acc_vc > 0

\* Line 887: a customized MEM-ACC corner is applied.
CustomAccApplies(acc_vc) == acc_vc > 0 /\ acc_vc # U8_MAX

\* Mutant of CustomAccVal: the corner overrides the upper pair only if it
\* lies below the pair's first value.
CustomAccVal_LowBound(acc_val, acc_vc_found) ==
    LET acc_vc == acc_vc_found - 1
        a1 == IF acc_vc < acc_val[3]
              THEN [acc_val EXCEPT ![3] = acc_vc - 1, ![4] = acc_vc]
              ELSE acc_val
        a2 == IF a1[3] <= a1[2] THEN [a1 EXCEPT ![2] = a1[3] - 1] ELSE a1
        a3 == IF a2[2] <= a2[1] THEN [a2 EXCEPT ![1] = a2[2] - 1] ELSE a2
    IN  a3

\* Mutant of CustomAccVal: the corner is moved four down instead of one.
CustomAccVal_FourDown(acc_val, acc_vc_found) ==
    LET acc_vc == acc_vc_found - 4
        a1 == IF acc_vc < acc_val[4]
              THEN [acc_val EXCEPT ![3] = acc_vc - 1, ![4] = acc_vc]
              ELSE acc_val
        a2 == IF a1[3] <= a1[2] THEN [a1 EXCEPT ![2] = a1[3] - 1] ELSE a1
        a3 == IF a2[2] <= a2[1] THEN [a2 EXCEPT ![1] = a2[2] - 1] ELSE a2
    IN  a3

\* Lines 899-911 on acc_val (1-based here): the corner is moved one down,
\* overrides the upper pair if it lies below it, and the lower values are
\* pushed down where they are not below their successor.
CustomAccVal(acc_val, acc_vc_found) ==
    LET acc_vc == acc_vc_found - 1
        a1 == IF acc_vc < acc_val[4]
              THEN [acc_val EXCEPT ![3] = acc_vc - 1, ![4] = acc_vc]
              ELSE acc_val
        a2 == IF a1[3] <= a1[2] THEN [a1 EXCEPT ![2] = a1[3] - 1] ELSE a1
        a3 == IF a2[2] <= a2[1] THEN [a2 EXCEPT ![1] = a2[2] - 1] ELSE a2
    IN  a3

\* Lines 938-939
ApmVcDefault(apm_vc) == IF apm_vc = INT_MAX THEN LUT_MAX_ENTRIES - 1 ELSE apm_vc

\* The register accesses of lines 887-960 in order, were none to fail.
\* hw_tbl[acc_val[3]] is read for the L-value; an index outside the table
\* would read foreign memory, shown as -1.
SequencerSteps(g, acc_val, custom) ==
    LET n == g.num_entries
        hi == acc_val[4]
        acc_lval == IF hi >= 0 /\ hi < Len(g.hw_tbl)
                    THEN LutLval(g.hw_tbl[hi + 1].freq_lut_val) ELSE -1
        apm_vc == ApmVcDefault(g.apm_vc)
    IN  (IF custom THEN <<ScmWrite(SEQUENCER_REG(SEQ_MEM_ACC_CROSSOVER_VC), n + 1)>> ELSE <<>>)
        \o [k \in 1..SEQ_MEM_ACC_MAX_LEVELS |->
                ScmWrite(SEQ_MEMACC_REG(k - 1), acc_val[k])]
        \o << ScmWrite(SEQUENCER_REG(SEQ_MEM_ACC_LVAL), acc_lval),
              Writel("seq1", 0, n),
              ScmWrite(SEQUENCER_REG(SEQ_APM_CROSSOVER_VC), n),
              ScmWrite(SEQUENCER_REG(SEQ_APM_THRESH_VC), apm_vc),
              ScmWrite(SEQUENCER_REG(SEQ_APM_THRESH_PREVC), apm_vc - 1),
              ScmWrite(SEQUENCER_REG(SEQ_APM_PARAM), APM_PARAM_BASE + apm_vc * 64) >>

\* The number of scm calls among the first k steps
RECURSIVE ScmCount(_, _)
ScmCount(steps, k) ==
    IF k = 0 THEN 0
    ELSE ScmCount(steps, k - 1) + (IF steps[k].op = "scm" THEN 1 ELSE 0)

\* Mutant of RunSequencerSteps: the error of a firmware call is kept but
\* the remaining steps are still carried out.
RunSequencerSteps_Continue(steps, scm_fail) ==
    LET fails == {k \in 1..Len(steps) :
                     steps[k].op = "scm" /\ ScmCount(steps, k) = scm_fail}
    IN  IF scm_fail = 0 \/ fails = {} THEN [ret |-> 0, log |-> steps]
        ELSE [ret |-> -EIO,
              log |-> [j \in 1..Len(steps) |->
                          IF j \in fails THEN [steps[j] EXCEPT !.ret = -EIO]
                          ELSE steps[j]]]

\* The steps as executed when the scm_fail-th scm call returns an error
\* (0: none does): every `if (ret) return ret` of lines 887-962.
RunSequencerSteps(steps, scm_fail) ==
    LET fails == {k \in 1..Len(steps) :
                     steps[k].op = "scm" /\ ScmCount(steps, k) = scm_fail}
    IN  IF scm_fail = 0 \/ fails = {} THEN [ret |-> 0, log |-> steps]
        ELSE LET k == CHOOSE x \in fails : TRUE
             IN  [ret |-> -EIO,
                  log |-> [j \in 1..k |->
                              IF j = k THEN [steps[j] EXCEPT !.ret = -EIO]
                              ELSE steps[j]]]

\* Mutant of TooFewCrossovers: the derived pairs are not checked.
TooFewCrossovers_Unchecked(acc_idx) == FALSE

\* Lines 880-881: `if (acc_idx < SEQ_MEM_ACC_MAX_LEVELS - 1) return -EINVAL`
TooFewCrossovers(acc_idx) == acc_idx < SEQ_MEM_ACC_MAX_LEVELS - 1

\* Mutant of WriteLutRows: the pairs are derived and tested before the LUT
\* is written, so too few pairs leave the LUT registers untouched.
WriteLutRows_CheckFirst(pf) ==
    LET g == qcom_cpufreq_gen_params(pf)
    IN  IF ~pf.osm_rsrc THEN
            [ret |-> -ENODEV, log |-> <<>>,
             gen |-> [ret |-> 0, hw_tbl |-> <<>>, apm_vc |-> INT_MAX,
                      acc_vc |-> U8_MAX, num_entries |-> 0, oob |-> FALSE],
             acc_std |-> <<>>]
        ELSE IF g.ret # 0 THEN
            [ret |-> g.ret, log |-> <<>>, gen |-> g, acc_std |-> <<>>]
        ELSE IF g.num_entries < 2 THEN
            [ret |-> -EINVAL, log |-> <<>>, gen |-> g, acc_std |-> <<>>]
        ELSE LET std == AccPairs(g.hw_tbl, g.num_entries, 0, 1, <<>>)
             IN  IF TooFewCrossovers(Len(std)) THEN
                     [ret |-> -EINVAL, log |-> <<>>, gen |-> g, acc_std |-> std]
                 ELSE [ret |-> 0, log |-> LutWrites(g.hw_tbl, g.num_entries),
                       gen |-> g, acc_std |-> std]

\* qcom_cpufreq_hw_write_lut up to line 881: the parameters are generated,
\* the LUT is written and the MEM-ACC pairs are taken from the spare values.
\* The result holds ret (0: go on), the register writes, what gen_params
\* returned and the pairs found.
WriteLutRows(pf) ==
    LET g0 == qcom_cpufreq_gen_params(pf)
        \* the element written past the end of hw_tbl reads back as it was
        \* written, or as whatever the heap's owner stored there since
        g == IF g0.oob /\ pf.oob_clobbered
             THEN [g0 EXCEPT !.hw_tbl[Len(g0.hw_tbl)] = Row(0, 0, 0, 0)]
             ELSE g0
    IN  IF ~pf.osm_rsrc THEN
            [ret |-> -ENODEV, log |-> <<>>,
             gen |-> [ret |-> 0, hw_tbl |-> <<>>, apm_vc |-> INT_MAX,
                      acc_vc |-> U8_MAX, num_entries |-> 0, oob |-> FALSE],
             acc_std |-> <<>>]
        ELSE IF g.ret # 0 THEN
            [ret |-> g.ret, log |-> <<>>, gen |-> g, acc_std |-> <<>>]
        ELSE IF g.num_entries < 2 THEN
            [ret |-> -EINVAL, log |-> <<>>, gen |-> g, acc_std |-> <<>>]
        ELSE LET std == AccPairs(g.hw_tbl, g.num_entries, 0, 1, <<>>)
             IN  [ret |-> IF TooFewCrossovers(Len(std)) THEN -EINVAL ELSE 0,
                  log |-> LutWrites(g.hw_tbl, g.num_entries),
                  gen |-> g, acc_std |-> std]

\* qcom_cpufreq_hw_write_lut from line 883 on: the customized corner is
\* applied and the sequencer is programmed. scm_fail: which
\* qcom_scm_io_writel returns an error (0: none).
WriteLutSequencer(g, std, scm_fail) ==
    LET custom == CustomAccApplies(g.acc_vc)
        acc_val == IF custom THEN CustomAccVal(std, g.acc_vc) ELSE std
        r == RunSequencerSteps(SequencerSteps(g, acc_val, custom), scm_fail)
    IN  [ret |-> r.ret, log |-> r.log, acc_val |-> acc_val, custom |-> custom]

\* qcom_cpufreq_hw_write_lut as a whole
qcom_cpufreq_hw_write_lut(pf, scm_fail) ==
    LET rows == WriteLutRows(pf)
        seq == WriteLutSequencer(rows.gen, rows.acc_std, scm_fail)
    IN  IF rows.ret # 0 THEN
            [ret |-> rows.ret, log |-> rows.log, gen |-> rows.gen,
             acc_std |-> rows.acc_std, acc_val |-> rows.acc_std, custom |-> FALSE]
        ELSE [ret |-> seq.ret, log |-> rows.log \o seq.log, gen |-> rows.gen,
              acc_std |-> rows.acc_std, acc_val |-> seq.acc_val,
              custom |-> seq.custom]

(***************************************************************************)
(* Setup registers and ACD: qcom_cpufreq_hw_osm_setup, _acd_init           *)
(***************************************************************************)
\* A 32-bit word of two 16-bit fields, held as a signed 32-bit integer
Word(hi, lo) == (IF hi >= 32768 THEN hi - 65536 ELSE hi) * 65536 + lo

\* a | b on signed 32-bit words
Or32(a, b) ==
    LET bit(x, k) == (x \div (2 ^ k)) % 2
        low == [k \in 0..30 |-> IF bit(a, k) = 1 \/ bit(b, k) = 1 THEN 2 ^ k ELSE 0]
        RECURSIVE Sum(_)
        Sum(k) == IF k < 0 THEN 0 ELSE low[k] + Sum(k - 1)
    IN  IF a < 0 \/ b < 0 THEN (Sum(30) - 2147483647) - 1 ELSE Sum(30)

ReadAcc(reg, val) == Acc("readl", reg, 0, val, 0)

\* qcom_cpufreq_hw_boost_setup on the timer group reg
BoostSetup(reg) ==
    << Writel(reg, 0, Word(SAFE_FREQ_WAIT_NS, PLL_WAIT_LOCK_TIME_NS)),
       Writel(reg, 1, Word(PLL_WAIT_LOCK_TIME_NS, PLL_WAIT_LOCK_TIME_NS)),
       Writel(reg, 2, DEXT_DECREMENT_WAIT_NS) >>

\* Mutant of SetupAccesses: the load-management hysteresis registers are
\* written before the core-retention map.
SetupAccesses_HysteresisFirst(droop_rd, pdn_rd) ==
    << Writel("reg_cycle_counter", 0,
              OSM_XO_RATIO_VAL * 2 + CYCLE_COUNTER_USE_XO_EDGE + 1),
       Writel("reg_spm_cc_hyst", 0, Word(HYSTERESIS_CC_NS, HYSTERESIS_CC_NS)),
       Writel("reg_cc_zero_behav", 0, 1),
       Writel("reg_llm_freq_vote_hyst", 0, Word(HYSTERESIS_LLM_NS, HYSTERESIS_LLM_NS)),
       Writel("reg_llm_volt_vote_hyst", 0, Word(HYSTERESIS_LLM_NS, HYSTERESIS_LLM_NS)),
       Writel("reg_spm_core_ret_map", 0, 0),
       Writel("reg_spm_cc_dcvs_dis", 0, 0),
       Writel("reg_llm_intf_dcvs_dis", 0, 0) >>
    \o BoostSetup("reg_cc_boost_timer")
    \o BoostSetup("reg_dcvs_boost_timer")
    \o BoostSetup("reg_ps_boost_timer")
    \o << Writel("reg_boost_sync_delay", 0, BOOST_SYNC_DELAY),
          Writel("reg_droop_unstall_ctrl", 0, Word(DROOP_TIMER_NS, DROOP_TIMER_NS)),
          Writel("reg_droop_wait_release_ctrl", 0,
                 Word(DROOP_WAIT_RELEASE_TIMER_NS, DROOP_WAIT_RELEASE_TIMER_NS)),
          Writel("reg_droop_sync_delay", 0, 1),
          Writel("reg_droop_release_ctrl", 0, DROOP_RELEASE_TIMER_NS),
          Writel("reg_droop_timer_ctrl", 0, DROOP_TIMER_NS),
          ReadAcc("reg_droop_ctrl", droop_rd),
          Writel("reg_droop_ctrl", 0, Or32(droop_rd, DROOP_CTRL_VAL)),
          ReadAcc("reg_pdn_fsm_ctrl", pdn_rd),
          Writel("reg_pdn_fsm_ctrl", 0, Or32(pdn_rd, PDN_FSM_EN)),
          Writel("reg_pll_override", 0, PLL_OVERRIDE_DROOP_EN) >>

\* Lines 1373-1450: the register accesses between write_lut and acd_init, in
\* order. droop_rd and pdn_rd are what the two read-modify-write reads return.
SetupAccesses(droop_rd, pdn_rd) ==
    << Writel("reg_cycle_counter", 0,
              OSM_XO_RATIO_VAL * 2 + CYCLE_COUNTER_USE_XO_EDGE + 1),
       Writel("reg_spm_cc_hyst", 0, Word(HYSTERESIS_CC_NS, HYSTERESIS_CC_NS)),
       Writel("reg_cc_zero_behav", 0, 1),
       Writel("reg_spm_core_ret_map", 0, 0),
       Writel("reg_spm_cc_dcvs_dis", 0, 0),
       Writel("reg_llm_freq_vote_hyst", 0, Word(HYSTERESIS_LLM_NS, HYSTERESIS_LLM_NS)),
       Writel("reg_llm_volt_vote_hyst", 0, Word(HYSTERESIS_LLM_NS, HYSTERESIS_LLM_NS)),
       Writel("reg_llm_intf_dcvs_dis", 0, 0) >>
    \o BoostSetup("reg_cc_boost_timer")
    \o BoostSetup("reg_dcvs_boost_timer")
    \o BoostSetup("reg_ps_boost_timer")
    \o << Writel("reg_boost_sync_delay", 0, BOOST_SYNC_DELAY),
          Writel("reg_droop_unstall_ctrl", 0, Word(DROOP_TIMER_NS, DROOP_TIMER_NS)),
          Writel("reg_droop_wait_release_ctrl", 0,
                 Word(DROOP_WAIT_RELEASE_TIMER_NS, DROOP_WAIT_RELEASE_TIMER_NS)),
          Writel("reg_droop_sync_delay", 0, 1),
          Writel("reg_droop_release_ctrl", 0, DROOP_RELEASE_TIMER_NS),
          Writel("reg_droop_timer_ctrl", 0, DROOP_TIMER_NS),
          ReadAcc("reg_droop_ctrl", droop_rd),
          Writel("reg_droop_ctrl", 0, Or32(droop_rd, DROOP_CTRL_VAL)),
          ReadAcc("reg_pdn_fsm_ctrl", pdn_rd),
          Writel("reg_pdn_fsm_ctrl", 0, Or32(pdn_rd, PDN_FSM_EN)),
          Writel("reg_pll_override", 0, PLL_OVERRIDE_DROOP_EN) >>

\* .acd_data of msm8998_soc_data; the other variants leave it zeroed.
msm8998_acd_data ==
    [acd_ctrl_reg |-> 4, tl_delay_reg |-> 8, softstart_reg |-> 40,
     ext_intf_reg |-> 48, dcvs_sw_reg |-> 52, gfmux_cfg_reg |-> 60,
     tl_delay_val |-> 38417, acd_ctrl_val |-> 2842621, softstart_val |-> 1281,
     ext_intf0_val |-> 47160040, ext_intf1_val |-> 47160062, auto_xfer_val |-> 21]
zeroed_acd_data ==
    [acd_ctrl_reg |-> 0, tl_delay_reg |-> 0, softstart_reg |-> 0,
     ext_intf_reg |-> 0, dcvs_sw_reg |-> 0, gfmux_cfg_reg |-> 0,
     tl_delay_val |-> 0, acd_ctrl_val |-> 0, softstart_val |-> 0,
     ext_intf0_val |-> 0, ext_intf1_val |-> 0, auto_xfer_val |-> 0]
acd_data(soc) == IF soc = "msm8998" THEN msm8998_acd_data ELSE zeroed_acd_data

\* Mutant of qcom_cpufreq_acd_regbit: the bit of the sub-register after the
\* one at the offset.
qcom_cpufreq_acd_regbit_Next(acd_reg_offset) == 2 ^ (acd_reg_offset \div 4 + 1)

\* qcom_cpufreq_acd_regbit: BIT(acd_reg_offset / 4)
qcom_cpufreq_acd_regbit(acd_reg_offset) == 2 ^ (acd_reg_offset \div 4)

\* A readl_poll_timeout as one access; ret is set where it times out.
PollAcc(reg, mask) == Acc("poll", reg, 0, mask, 0)

\* qcom_cpufreq_hw_acd_write_autoxfer
AcdWriteAutoxfer(val) ==
    << Writel("acd_auto_xfer_cfg", 0, val),
       Writel("acd_auto_xfer", 0, 0),
       Writel("acd_auto_xfer", 0, 1),
       PollAcc("acd_auto_xfer_sts", 1) >>

\* qcom_cpufreq_hw_acd_write_xfer
AcdWriteXfer(reg, val) ==
    << Writel("acd", reg, val),
       Writel("acd_write_ctl", 0, 0),
       Writel("acd_write_ctl", 0, (reg \div 4) * 2 + ACD_WRITE_CTL_UPDATE_EN),
       PollAcc("acd_write_sts", qcom_cpufreq_acd_regbit(reg)) >>

OSM_BOOT_TIME_US == 5

\* udelay(us): a busy wait, kept in the log between the accesses
Delay(us) == Acc("udelay", "none", 0, us, 0)

\* Mutant of AcdAccesses: the clock mux is switched before the auto-transfer
\* of the four values.
AcdAccesses_MuxFirst(aregs) ==
    LET rmask == Or32(Or32(qcom_cpufreq_acd_regbit(aregs.acd_ctrl_reg),
                           qcom_cpufreq_acd_regbit(aregs.tl_delay_reg)),
                      Or32(qcom_cpufreq_acd_regbit(aregs.softstart_reg),
                           qcom_cpufreq_acd_regbit(aregs.ext_intf_reg)))
    IN  << Writel("acd", aregs.tl_delay_reg, aregs.tl_delay_val),
           Writel("acd", aregs.acd_ctrl_reg, aregs.acd_ctrl_val),
           Writel("acd", aregs.softstart_reg, aregs.softstart_val),
           Writel("acd", aregs.ext_intf_reg, aregs.ext_intf0_val),
           Writel("acd_auto_xfer_ctl", 0, aregs.auto_xfer_val) >>
        \o AcdWriteXfer(aregs.gfmux_cfg_reg, 1)
        \o AcdWriteAutoxfer(rmask)
        \o AcdWriteXfer(aregs.dcvs_sw_reg, 1)
        \o AcdWriteXfer(aregs.dcvs_sw_reg, 0)
        \o << Delay(1) >>
        \o AcdWriteXfer(aregs.ext_intf_reg, aregs.ext_intf1_val)
        \o << Writel("acd_auto_xfer_cfg", 0,
                     Or32(rmask, qcom_cpufreq_acd_regbit(aregs.gfmux_cfg_reg))),
              Delay(OSM_BOOT_TIME_US) >>

\* Mutant of AcdAccesses: the last step is an auto-transfer, with start
\* pulse and status poll.
AcdAccesses_FinalAutoxfer(aregs) ==
    LET rmask == Or32(Or32(qcom_cpufreq_acd_regbit(aregs.acd_ctrl_reg),
                           qcom_cpufreq_acd_regbit(aregs.tl_delay_reg)),
                      Or32(qcom_cpufreq_acd_regbit(aregs.softstart_reg),
                           qcom_cpufreq_acd_regbit(aregs.ext_intf_reg)))
    IN  << Writel("acd", aregs.tl_delay_reg, aregs.tl_delay_val),
           Writel("acd", aregs.acd_ctrl_reg, aregs.acd_ctrl_val),
           Writel("acd", aregs.softstart_reg, aregs.softstart_val),
           Writel("acd", aregs.ext_intf_reg, aregs.ext_intf0_val),
           Writel("acd_auto_xfer_ctl", 0, aregs.auto_xfer_val) >>
        \o AcdWriteAutoxfer(rmask)
        \o AcdWriteXfer(aregs.gfmux_cfg_reg, 1)
        \o AcdWriteXfer(aregs.dcvs_sw_reg, 1)
        \o AcdWriteXfer(aregs.dcvs_sw_reg, 0)
        \o << Delay(1) >>
        \o AcdWriteXfer(aregs.ext_intf_reg, aregs.ext_intf1_val)
        \o AcdWriteAutoxfer(Or32(rmask,
                                 qcom_cpufreq_acd_regbit(aregs.gfmux_cfg_reg)))
        \o << Delay(OSM_BOOT_TIME_US) >>

\* Lines 722-767: the accesses and the waits of ACD initialization, were no
\* poll to time out
AcdAccesses(aregs) ==
    LET rmask == Or32(Or32(qcom_cpufreq_acd_regbit(aregs.acd_ctrl_reg),
                           qcom_cpufreq_acd_regbit(aregs.tl_delay_reg)),
                      Or32(qcom_cpufreq_acd_regbit(aregs.softstart_reg),
                           qcom_cpufreq_acd_regbit(aregs.ext_intf_reg)))
    IN  << Writel("acd", aregs.tl_delay_reg, aregs.tl_delay_val),
           Writel("acd", aregs.acd_ctrl_reg, aregs.acd_ctrl_val),
           Writel("acd", aregs.softstart_reg, aregs.softstart_val),
           Writel("acd", aregs.ext_intf_reg, aregs.ext_intf0_val),
           Writel("acd_auto_xfer_ctl", 0, aregs.auto_xfer_val) >>
        \o AcdWriteAutoxfer(rmask)
        \o AcdWriteXfer(aregs.gfmux_cfg_reg, 1)
        \o AcdWriteXfer(aregs.dcvs_sw_reg, 1)
        \o AcdWriteXfer(aregs.dcvs_sw_reg, 0)
        \o << Delay(1) >>
        \o AcdWriteXfer(aregs.ext_intf_reg, aregs.ext_intf1_val)
        \o << Writel("acd_auto_xfer_cfg", 0,
                     Or32(rmask, qcom_cpufreq_acd_regbit(aregs.gfmux_cfg_reg))),
              Delay(OSM_BOOT_TIME_US) >>

\* The number of polls among the first k accesses
RECURSIVE PollCount(_, _)
PollCount(steps, k) ==
    IF k = 0 THEN 0
    ELSE PollCount(steps, k - 1) + (IF steps[k].op = "poll" THEN 1 ELSE 0)

\* Mutant of qcom_cpufreq_hw_acd_init: a poll that timed out is reported
\* only after the remaining steps were carried out.
qcom_cpufreq_hw_acd_init_Continue(soc, acd_present, poll_fail) ==
    LET steps == AcdAccesses(acd_data(soc))
        fails == {k \in 1..Len(steps) :
                     steps[k].op = "poll" /\ PollCount(steps, k) = poll_fail}
    IN  IF ~acd_present THEN [ret |-> 0, log |-> <<>>]
        ELSE IF poll_fail = 0 \/ fails = {} THEN [ret |-> 0, log |-> steps]
        ELSE [ret |-> -ETIMEDOUT,
              log |-> [j \in 1..Len(steps) |->
                          IF j \in fails THEN [steps[j] EXCEPT !.ret = -ETIMEDOUT]
                          ELSE steps[j]]]

\* qcom_cpufreq_hw_acd_init. acd_present: the "osm-acdN" region maps;
\* poll_fail: which poll times out (0: none). Every `if (ret) return ret` of
\* lines 733-760 cuts the accesses after the poll that timed out.
qcom_cpufreq_hw_acd_init(soc, acd_present, poll_fail) ==
    LET steps == AcdAccesses(acd_data(soc))
        fails == {k \in 1..Len(steps) :
                     steps[k].op = "poll" /\ PollCount(steps, k) = poll_fail}
    IN  IF ~acd_present THEN [ret |-> 0, log |-> <<>>]
        ELSE IF poll_fail = 0 \/ fails = {} THEN [ret |-> 0, log |-> steps]
        ELSE LET k == CHOOSE x \in fails : TRUE
             IN  [ret |-> -ETIMEDOUT,
                  log |-> [j \in 1..k |->
                              IF j = k THEN [steps[j] EXCEPT !.ret = -ETIMEDOUT]
                              ELSE steps[j]]]

(***************************************************************************)
(* Throttle notifier: pure parts                                           *)
(***************************************************************************)
\* qcom_lmh_get_throttle_freq: the 10-bit vote times 19200, in kHz.
qcom_lmh_get_throttle_freq(val) == (val % (VOTE_MASK + 1)) * VOTE_KHZ

\* freq_hz = freq * HZ_PER_KHZ is an unsigned 32-bit product. With
\* 1000 = 8 * 125 the wrapped product is 8 * ((freq * 125) mod 2^29); this
\* operator gives that wrapped product divided by 8 (the product itself does
\* not fit TLC's integers). freq is split at 2^12 to keep the intermediate
\* products in range.
FreqHzDiv8(freq) ==
    LET a == freq \div 4096
        b == freq % 4096
    IN  ((((a * (HZ_PER_KHZ \div 8)) % 131072) * 4096) + b * (HZ_PER_KHZ \div 8)) % 536870912

\* floor(freq_hz / 1000) and ceil(freq_hz / 1000) of the wrapped product
FreqHzFloorKhz(freq) == FreqHzDiv8(freq) \div (HZ_PER_KHZ \div 8)
FreqHzCeilKhz(freq) == (FreqHzDiv8(freq) + (HZ_PER_KHZ \div 8) - 1) \div (HZ_PER_KHZ \div 8)

NoOppTable == [present |-> FALSE, rates |-> {}]
OppTable(rates) == [present |-> TRUE, rates |-> rates]

\* dev_pm_opp_find_freq_floor(dev, &freq_hz) (line 1146): the highest rate of
\* the device's operating-point table at or below freq_hz, -ERANGE if the
\* table has none, -ENODEV if the device has no table, -EINVAL without a
\* device. OPP rates are whole kHz.
dev_pm_opp_find_freq_floor(dev, opps, freq) ==
    IF ~dev THEN -EINVAL
    ELSE IF ~opps.present THEN -ENODEV
    ELSE LET below == {r \in opps.rates : r <= FreqHzFloorKhz(freq)}
         IN  IF below = {} THEN -ERANGE ELSE SetMax(below)

\* dev_pm_opp_find_freq_ceil(dev, &freq_hz) (line 1148): the lowest rate at
\* or above freq_hz, with the same errors.
dev_pm_opp_find_freq_ceil(dev, opps, freq) ==
    IF ~dev THEN -EINVAL
    ELSE IF ~opps.present THEN -ENODEV
    ELSE LET above == {r \in opps.rates : r >= FreqHzCeilKhz(freq)}
         IN  IF above = {} THEN -ERANGE ELSE SetMin(above)

\* Mutant of ResolveThrottledFreq: a failed lookup yields frequency zero.
ResolveThrottledFreq_ZeroOnFailure(hz, freq) ==
    IF hz < 0 THEN 0 ELSE hz

\* throttled_freq = freq_hz / HZ_PER_KHZ (line 1150). hz is the rate a
\* lookup stored in freq_hz, -1 if both failed: a failed lookup leaves
\* freq_hz as line 1144 computed it.
ResolveThrottledFreq(hz, freq) ==
    IF hz < 0 THEN FreqHzFloorKhz(freq) ELSE hz

\* The decision of qcom_lmh_dcvs_notify once it holds the lock and is not
\* cancelled: TRUE re-enables the interrupt, FALSE re-arms the poll.
NotifyRearmsIrq(tf, policy, tbl, reg) ==
    tf >= qcom_cpufreq_hw_get(policy, tbl, reg)

(***************************************************************************)
(* Table reader: qcom_cpufreq_hw_read_lut                                  *)
(***************************************************************************)
\* The for loop of lines 1024-1080 from slot i on. fail_khz: the frequencies
\* for which qcom_cpufreq_update_opp fails. st holds table, prev_freq, the
\* rates of the OPPs added or enabled so far, and the accesses made.
RECURSIVE ReadLutLoop(_, _, _, _, _)
ReadLutLoop(soc, lut, fail_khz, i, st) ==
    IF i >= LUT_MAX_ENTRIES THEN
        [table |-> st.table, rates |-> st.rates, log |-> st.log, i |-> i]
    ELSE LET data == lut[i].freq_lut_val
             src == LutSrc(soc, data)
             lval == LutLval(data)
             core_count == LutCoreCount(data)
             volt == LutVolt(lut[i].volt_lut_val) * 1000
             freq == IF src # 0 THEN XO_RATE_KHZ * lval ELSE CPU_HW_RATE_KHZ
             log == st.log \o << Acc("readl", "freq_lut", i, data, 0),
                                 Acc("readl", "volt_lut", i, lut[i].volt_lut_val, 0) >>
             fresh == freq # st.prev_freq /\ core_count # LUT_TURBO_IND
             t1 == IF fresh THEN
                       [st.table EXCEPT ![i] = IF freq \notin fail_khz THEN freq
                                               ELSE CPUFREQ_ENTRY_INVALID]
                   ELSE IF core_count = LUT_TURBO_IND THEN
                       [st.table EXCEPT ![i] = CPUFREQ_ENTRY_INVALID]
                   ELSE st.table
             r1 == IF fresh /\ freq \notin fail_khz THEN st.rates \cup {freq}
                   ELSE st.rates
         IN  IF i > 0 /\ st.prev_freq = freq THEN
                 LET boost == t1[i - 1] = CPUFREQ_ENTRY_INVALID
                              /\ st.prev_freq \notin fail_khz
                 IN  [table |-> IF boost THEN [t1 EXCEPT ![i - 1] = st.prev_freq]
                                ELSE t1,
                      rates |-> IF boost THEN r1 \cup {st.prev_freq} ELSE r1,
                      log |-> log, i |-> i]
             ELSE ReadLutLoop(soc, lut, fail_khz, i + 1,
                              [table |-> t1, prev_freq |-> freq, rates |-> r1,
                               log |-> log])

\* qcom_cpufreq_hw_read_lut. dt is what dev_pm_opp_of_add_table finds:
\* "table" (0), "none" (-ENODEV) or "invalid" (another error).
qcom_cpufreq_hw_read_lut(soc, lut, dt, fail_khz) ==
    LET zeroed == [i \in 0..LUT_MAX_ENTRIES |-> 0]
        l == ReadLutLoop(soc, lut, fail_khz, 0,
                         [table |-> zeroed, prev_freq |-> 0, rates |-> {},
                          log |-> <<>>])
    IN  IF dt = "invalid" THEN
            [ret |-> -EINVAL, table |-> zeroed, entries |-> 0, log |-> <<>>,
             opps |-> NoOppTable, icc |-> FALSE]
        ELSE [ret |-> 0,
              table |-> [l.table EXCEPT ![l.i] = CPUFREQ_TABLE_END],
              entries |-> l.i,
              log |-> l.log,
              opps |-> IF dt = "table" \/ l.rates # {} THEN OppTable(l.rates)
                       ELSE NoOppTable,
              icc |-> dt = "table"]

(***************************************************************************)
(* Inputs of domain initialization                                         *)
(***************************************************************************)
\* A LUT as trusted firmware leaves it: rows of <<src, L-value, core count>>,
\* the last one repeated up to slot 39.
FirmwareLut(soc, rows) ==
    [i \in 0..(LUT_MAX_ENTRIES - 1) |->
        LET k == Min(i + 1, Len(rows))
        IN  Row(VoltLutVal(k - 1, 600 + 25 * k),
                rows[k][1] * SrcShift(soc) + rows[k][2]
                    + rows[k][3] * LUT_CORE_COUNT_SHIFT,
                0, 0)]
\* four rows; four rows and a boost row; all forty slots distinct
FirmwareTables ==
    { <<<<0, 16, 4>>, <<1, 47, 4>>, <<1, 62, 4>>, <<1, 78, 4>>>>,
      <<<<0, 16, 4>>, <<1, 47, 4>>, <<1, 62, 4>>, <<1, 78, 4>>, <<1, 90, 1>>>>,
      [i \in 1..LUT_MAX_ENTRIES |-> <<1, 15 + i, 4>>] }
\* the LUT registers after reset
BlankLut == [i \in 0..(LUT_MAX_ENTRIES - 1) |-> Row(0, 0, 0, 0)]

\* The OPPs the power domain yields: n of them, 300 MHz apart, 100 mV apart
\* from base_uV, with the given spare values. defect names what is missing
\* on the second one.
GenpdOpps(n, base_uV, spares, defect) ==
    [i \in 1..n |->
        [rate |-> 300000 * i,
         uV |-> base_uV + 100000 * (i - 1),
         np |-> ~(defect = "no_node" /\ i = 2),
         override |-> IF defect = "no_override" /\ i = 2 THEN -1 ELSE 16 + i,
         spare |-> spares[i],
         pll_div |-> IF i = n THEN 1 ELSE -1]]

Platform(soc, genpd, cnt, opps, apm_uV, acc_uV) ==
    [soc |-> soc, genpd |-> genpd, gpd_opp_cnt |-> cnt, opps |-> opps,
     apm_uV |-> apm_uV, acc_uV |-> acc_uV, cpu_count |-> 4,
     osm_rsrc |-> TRUE, acd_rsrc |-> TRUE, oob_clobbered |-> FALSE]

\* spare values as the MEM-ACC level of each corner: never decreasing
SpareSeqs(n) ==
    {sp \in [1..n -> 0..3] : \A i \in 1..(n - 1) : sp[i] <= sp[i + 1]}

ApmThresholds == {750000, 2000000}
AccThresholds == {0, 500000, 650000, 800000, 900000, 2000000}

\* Well-formed tables of 2..MaxOpps corners with every spare sequence and
\* every combination of the two thresholds
DerivationPlatforms ==
    UNION {{Platform("msm8998", "ok", n, GenpdOpps(n, 500000, sp, "none"), apm, acc) :
               sp \in SpareSeqs(n), apm \in ApmThresholds, acc \in AccThresholds} :
           n \in 2..MaxOpps}

DefaultSpares == <<1, 1, 2, 2, 3, 3>>
DefaultPlatform(soc) ==
    Platform(soc, "ok", 3, GenpdOpps(3, 500000, <<1, 2, 3>>, "none"), 750000, 0)

\* Tables and environments the reader or the programmer must refuse, and a
\* power domain that yields one OPP more than it counted
DefectPlatforms ==
    LET d == DefaultPlatform("msm8998")
        four == GenpdOpps(4, 500000, <<1, 2, 2, 3>>, "none")
    IN  {[d EXCEPT !.genpd = g] : g \in {"attach_failed", "no_vdev", "no_cpr_data"}}
        \cup {[d EXCEPT !.osm_rsrc = FALSE]}
        \cup {[d EXCEPT !.gpd_opp_cnt = c, !.opps = <<>>] : c \in {-ENODEV, 0}}
        \cup {[d EXCEPT !.gpd_opp_cnt = 1,
                        !.opps = GenpdOpps(1, 500000, DefaultSpares, "none")]}
        \cup {[d EXCEPT !.apm_uV = 0]}
        \cup {[d EXCEPT !.opps = GenpdOpps(3, 500000, <<1, 2, 3>>, f)] :
                 f \in {"no_node", "no_override"}}
        \cup {[d EXCEPT !.opps = GenpdOpps(3, b, <<1, 2, 3>>, "none")] :
                 b \in {100000, 1300000}}
        \cup {[d EXCEPT !.gpd_opp_cnt = 4, !.opps = GenpdOpps(3, 500000, <<1, 2, 3>>, "none")]}
        \cup {[d EXCEPT !.opps = four, !.oob_clobbered = c] : c \in BOOLEAN}

FirmwarePlatforms == {DefaultPlatform(soc) : soc \in {"qcom", "epss"}}

\* Domains without an ACD block: one of each SoC variant, and one with a
\* customized MEM-ACC corner
NoAcdPlatforms ==
    {[p EXCEPT !.acd_rsrc = FALSE] :
        p \in {DefaultPlatform(soc) : soc \in SocVariants}
              \cup {Platform("msm8998", "ok", 4,
                             GenpdOpps(4, 500000, <<1, 1, 2, 3>>, "none"),
                             750000, 800000)}}

Platforms ==
    DerivationPlatforms \cup DefectPlatforms \cup FirmwarePlatforms
        \cup NoAcdPlatforms

\* What is kept of a call of qcom_cpufreq_hw_write_lut: its return value,
\* what qcom_cpufreq_gen_params returned to it (0 if it was not called),
\* the locals gen_params filled in, and acc_val before and after the
\* customized corner is applied.
WriteLutReturned(r) ==
    [ran |-> TRUE, ret |-> r.ret, gen_ret |-> r.gen.ret, hw_tbl |-> r.gen.hw_tbl,
     num_entries |-> r.gen.num_entries, apm_vc |-> r.gen.apm_vc,
     acc_vc |-> r.gen.acc_vc, oob |-> r.gen.oob,
     acc_std |-> r.acc_std, acc_val |-> r.acc_std, custom |-> FALSE]

\* What the policy holds of the memory region of the domain, its mapping,
\* the domain's data and the frequency table: nothing on entry of
\* qcom_cpufreq_hw_cpu_init and after qcom_cpufreq_hw_cpu_exit (lines
\* 1603-1606); region, mapping and data from line 1526 on; the table too
\* once qcom_cpufreq_hw_read_lut has set policy->freq_table (line 1083).
NoResources == [region |-> FALSE, base |-> FALSE, data |-> FALSE, table |-> FALSE]
MappedResources == [region |-> TRUE, base |-> TRUE, data |-> TRUE, table |-> FALSE]
AllResources == [region |-> TRUE, base |-> TRUE, data |-> TRUE, table |-> TRUE]
\* The labels error, unmap_base and release_region (lines 1583-1590) free
\* the data, unmap the base and release the region; they leave
\* policy->freq_table alone.
Released(res) ==
    [res EXCEPT !.region = FALSE, !.base = FALSE, !.data = FALSE]

\* qcom_cpufreq_hw_write_lut has not run
NoWriteLut ==
    [ran |-> FALSE, ret |-> 0, gen_ret |-> 0, hw_tbl |-> <<>>, num_entries |-> 0,
     apm_vc |-> INT_MAX, acc_vc |-> U8_MAX, oob |-> FALSE,
     acc_std |-> <<>>, acc_val |-> <<>>, custom |-> FALSE]

(***************************************************************************)
(* Throttle notifier: inputs                                               *)
(***************************************************************************)
\* L-values of the rows of the frequency table of the throttled domain
ThrottleLvals == <<16, 47, 62, 78>>
ThrottleEntries == Len(ThrottleLvals)
ThrottleKhz(i) == VOTE_KHZ * ThrottleLvals[i + 1]
ThrottleTable ==
    [i \in 0..LUT_MAX_ENTRIES |->
        IF i < ThrottleEntries THEN ThrottleKhz(i)
        ELSE IF i = ThrottleEntries THEN CPUFREQ_TABLE_END ELSE 0]
ThrottleOpps == {ThrottleKhz(i) : i \in 0..(ThrottleEntries - 1)}
\* votes the hardware reports: below the table, inside it, on its rows, above
\* it, and large enough for the 32-bit Hz product to wrap (224 and above)
VoteChoices == <<62, 78, 10, 50, 224, 1023, 300>>
VoteVals == {VoteChoices[k] : k \in 1..Min(MaxVoteChoice, Len(VoteChoices))}

(***************************************************************************)
(* Throttle notifier: initial state (struct freshly kzalloc'ed)            *)
(***************************************************************************)
ThrottleIdle ==
    /\ throttle_irq = 0
    /\ irq_requested = FALSE
    /\ irq_depth = 0
    /\ irq_pc = "idle"
    /\ work_timer = -1
    /\ work_canceling = FALSE
    /\ poll_pc = "idle"
    /\ poll_freq = 0
    /\ poll_dev = FALSE
    /\ poll_freq_hz = -1
    /\ throttled_freq = 0
    /\ thermal_pressure = 0
    /\ cancel_throttle = FALSE
    /\ throttle_lock = "free"
    /\ exit_pc = "uninit"
    /\ free_unclaimed = FALSE
    /\ policy_cpus = TRUE
    /\ current_vote = 0
    /\ opp_table = NoOppTable

\* A firmware-configured domain whose initialization has read the LUT and
\* is about to call qcom_cpufreq_hw_lmh_init (line 1578).
ThrottleLut == FirmwareLut("qcom", [i \in 1..ThrottleEntries |-> <<1, ThrottleLvals[i], 4>>])
BringupDone ==
    /\ platform = DefaultPlatform("qcom")
    /\ init_pc = "lmh_init"
    /\ init_ret = 0
    /\ wlog = <<>>
    /\ lut_regs = ThrottleLut
    /\ enable_reg = 1
    /\ resources = AllResources
    /\ wl = NoWriteLut
    /\ acd_ret = 0
    /\ icc_scaling_enabled = FALSE

InitThrottle ==
    /\ throttle_irq = 0
    /\ irq_requested = FALSE
    /\ irq_depth = 0
    /\ irq_pc = "idle"
    /\ work_timer = -1
    /\ work_canceling = FALSE
    /\ poll_pc = "idle"
    /\ poll_freq = 0
    /\ poll_dev = FALSE
    /\ poll_freq_hz = -1
    /\ throttled_freq = 0
    /\ thermal_pressure = 0
    /\ cancel_throttle = FALSE
    /\ throttle_lock = "free"
    /\ exit_pc = "uninit"
    /\ free_unclaimed = FALSE
    /\ policy_cpus = TRUE
    /\ current_vote \in VoteVals
    /\ opp_table = OppTable(ThrottleOpps)
    /\ perf_state \in 0..(ThrottleEntries - 1)
    /\ freq_table = ThrottleTable
    /\ run_op = "none"
    /\ last_write = "none"
    /\ last_index = 0
    /\ get_ret = 0
    /\ set_ret = 0
    /\ bw_vote = NoBwVote
    /\ BringupDone

(***************************************************************************)
(* Throttle notifier: actions                                              *)
(***************************************************************************)
\* qcom_cpufreq_hw_lmh_init (called at line 1578) up to its return statement.
\* irq is what platform_get_irq_optional returns, claimed is whether
\* request_threaded_irq succeeds. From request_threaded_irq (line 1312) on
\* the interrupt can be taken, while qcom_cpufreq_hw_cpu_init has not
\* returned and the cpufreq core has not registered the policy.
LmhInit(irq, claimed) ==
    /\ init_pc = "lmh_init"
    /\ exit_pc = "uninit"
    /\ throttle_irq' = irq
    /\ IF irq < 0 THEN
            \* no interrupt line (-ENXIO) or an error: nothing else is set up
            UNCHANGED <<irq_requested, cancel_throttle>>
       ELSE /\ cancel_throttle' = FALSE
            /\ irq_requested' = claimed
    /\ init_pc' = "lmh_return"
    /\ UNCHANGED <<irq_depth, irq_pc, work_timer, work_canceling, poll_pc,
                   poll_freq, poll_dev,
                   poll_freq_hz, throttled_freq, thermal_pressure, throttle_lock,
                   exit_pc, free_unclaimed, policy_cpus, current_vote,
                   opp_table, runtime_vars, platform, init_ret, wlog,
                   lut_regs, enable_reg, wl, acd_ret, icc_scaling_enabled,
                   resources>>

\* The return of qcom_cpufreq_hw_lmh_init and of qcom_cpufreq_hw_cpu_init
\* (lines 1579-1590): an error of platform_get_irq_optional other than
\* -ENXIO goes through the label error, everything else returns 0.
CpuInitReturn ==
    /\ init_pc = "lmh_return"
    /\ IF throttle_irq # -ENXIO /\ throttle_irq < 0 THEN
            /\ init_pc' = "failed"
            /\ init_ret' = throttle_irq
            /\ resources' = Released(resources)
            /\ exit_pc' = "init_failed"
       ELSE /\ init_pc' = "done"
            /\ init_ret' = 0
            /\ exit_pc' = "registering"
            /\ UNCHANGED resources
    /\ UNCHANGED <<throttle_irq, irq_requested, irq_depth, irq_pc, work_timer,
                   work_canceling, poll_pc, poll_freq, poll_dev,
                   poll_freq_hz, throttled_freq,
                   thermal_pressure, cancel_throttle, throttle_lock,
                   free_unclaimed, policy_cpus, current_vote, opp_table,
                   runtime_vars, platform, wlog, lut_regs, enable_reg, wl,
                   acd_ret, icc_scaling_enabled>>

\* After .init (line 1624) has returned 0 the cpufreq core registers the
\* policy: it stores it in the per-CPU pointer that cpufreq_cpu_get_raw
\* (line 382) reads. Until then qcom_cpufreq_hw_get finds no policy.
PolicyRegister ==
    /\ exit_pc = "registering"
    /\ exit_pc' = "live"
    /\ UNCHANGED <<throttle_irq, irq_requested, irq_depth, irq_pc, work_timer,
                   work_canceling, poll_pc, poll_freq, poll_dev,
                   poll_freq_hz, throttled_freq,
                   thermal_pressure, cancel_throttle, throttle_lock,
                   free_unclaimed, policy_cpus, current_vote, opp_table,
                   runtime_vars, bringup_vars>>

\* The LMh hardware changes its autonomous vote.
HwVote(v) ==
    /\ current_vote # v
    /\ current_vote' = v
    /\ UNCHANGED <<throttle_irq, irq_requested, irq_depth, irq_pc, work_timer,
                   work_canceling, poll_pc, poll_freq, poll_dev,
                   poll_freq_hz, throttled_freq, thermal_pressure,
                   cancel_throttle, throttle_lock, exit_pc, free_unclaimed, policy_cpus,
                   opp_table, runtime_vars, bringup_vars>>

\* qcom_cpufreq_hw_target_index called by the policy while the notifier runs.
ThrottleSetIndex(index) ==
    /\ exit_pc \in {"live"}
    /\ perf_state # index
    /\ perf_state' = index
    /\ run_op' = "set"
    /\ last_write' = "set"
    /\ last_index' = index
    /\ set_ret' = TargetIndexReturn(0)
    /\ UNCHANGED <<throttle_vars, freq_table, get_ret, bw_vote, bringup_vars>>

\* Mutant of IrqDisable: the handler leaves the line enabled, so a second
\* interrupt can be taken while the poll of the first is pending.
IrqDisable_LeavesEnabled ==
    /\ irq_requested
    /\ irq_depth = 0
    /\ irq_pc = "idle"
    /\ irq_depth' = irq_depth
    /\ irq_pc' = "schedule"
    /\ UNCHANGED <<throttle_irq, irq_requested, work_timer, work_canceling,
                   poll_pc, poll_freq, poll_dev,
                   poll_freq_hz, throttled_freq, thermal_pressure, cancel_throttle,
                   throttle_lock, exit_pc, free_unclaimed, policy_cpus, current_vote,
                   opp_table, runtime_vars, bringup_vars>>

\* qcom_lmh_dcvs_handle_irq, first statement: disable_irq_nosync. The handler
\* is threaded and IRQF_ONESHOT: it runs when the line is claimed and enabled
\* and no handler instance is running.
IrqDisable ==
    /\ irq_requested
    /\ irq_depth = 0
    /\ irq_pc = "idle"
    /\ irq_depth' = irq_depth + 1
    /\ irq_pc' = "schedule"
    /\ UNCHANGED <<throttle_irq, irq_requested, work_timer, work_canceling,
                   poll_pc, poll_freq, poll_dev,
                   poll_freq_hz, throttled_freq, thermal_pressure, cancel_throttle,
                   throttle_lock, exit_pc, free_unclaimed, policy_cpus, current_vote,
                   opp_table, runtime_vars, bringup_vars>>

\* Mutant of IrqSchedule: the handler schedules the poll with the 10 ms delay
\* of a re-armed poll instead of zero delay.
IrqSchedule_Delayed ==
    /\ irq_pc = "schedule"
    /\ irq_pc' = "idle"
    /\ work_timer' = IF work_timer = -1 /\ ~work_canceling THEN POLL_DELAY_MS
                     ELSE work_timer
    /\ UNCHANGED <<throttle_irq, irq_requested, irq_depth, work_canceling,
                   poll_pc, poll_freq, poll_dev,
                   poll_freq_hz, throttled_freq, thermal_pressure, cancel_throttle,
                   throttle_lock, exit_pc, free_unclaimed, policy_cpus, current_vote,
                   opp_table, runtime_vars, bringup_vars>>

\* qcom_lmh_dcvs_handle_irq, second statement: schedule_delayed_work(work, 0)
\* queues the work unless it is already pending (or being cancelled).
IrqSchedule ==
    /\ irq_pc = "schedule"
    /\ irq_pc' = "idle"
    /\ work_timer' = IF work_timer = -1 /\ ~work_canceling THEN 0 ELSE work_timer
    /\ UNCHANGED <<throttle_irq, irq_requested, irq_depth, work_canceling,
                   poll_pc, poll_freq, poll_dev,
                   poll_freq_hz, throttled_freq, thermal_pressure, cancel_throttle,
                   throttle_lock, exit_pc, free_unclaimed, policy_cpus, current_vote,
                   opp_table, runtime_vars, bringup_vars>>

\* The delay of a re-armed poll elapses.
TimerExpire ==
    /\ work_timer > 0
    /\ work_timer' = 0
    /\ UNCHANGED <<throttle_irq, irq_requested, irq_depth, irq_pc,
                   work_canceling, poll_pc, poll_freq, poll_dev,
                   poll_freq_hz, throttled_freq, thermal_pressure,
                   cancel_throttle, throttle_lock, exit_pc, free_unclaimed, policy_cpus,
                   current_vote, opp_table, runtime_vars, bringup_vars>>

\* cpumask_first(policy->cpus) and get_cpu_device (lines 1133-1134) find a
\* CPU device while policy->cpus holds a CPU: the core puts the CPU it brings
\* up there before .init, line 1528 adds the related ones, and the core
\* empties the mask before it calls .exit (line 1625) for a policy that goes
\* offline.
PolicyHasCpus == policy_cpus

\* cpufreq_cpu_get_raw (line 382) finds the policy of that CPU: the core has
\* registered the policy and the CPU is still in policy->cpus.
PolicyFound == exit_pc = "live"

\* The data of the domain is freed (line 1604): what runs on it now reads
\* freed memory, which still holds the old contents, or does not.
DataFreed == exit_pc = "returned"

\* qcom_lmh_dcvs_poll -> qcom_lmh_dcvs_notify, lines 1130-1144: the worker
\* takes the due work, looks for the CPU device of the first CPU of
\* policy->cpus and reads the vote. After cpu_exit has returned the data is
\* freed and the registers unmapped: the poll then reads freed memory,
\* which either still holds the old contents or faults.
PollBegin ==
    /\ work_timer = 0
    /\ poll_pc = "idle"
    /\ work_timer' = -1
    /\ \/ /\ poll_dev' = PolicyHasCpus
          /\ poll_freq' = qcom_lmh_get_throttle_freq(current_vote)
          /\ poll_freq_hz' = -1
          /\ poll_pc' = "floor"
       \/ /\ DataFreed
          /\ poll_pc' = "fault"
          /\ UNCHANGED <<poll_freq, poll_dev, poll_freq_hz>>
    /\ UNCHANGED <<throttle_irq, irq_requested, irq_depth, irq_pc,
                   work_canceling, throttled_freq, thermal_pressure,
                   cancel_throttle, throttle_lock, exit_pc, free_unclaimed,
                   policy_cpus, current_vote, opp_table, runtime_vars,
                   bringup_vars>>

\* Lines 1146-1147: dev_pm_opp_find_freq_floor looks the frequency up in the
\* operating-point table as it is now; only -ERANGE leads to the ceil
\* lookup.
PollFloor ==
    /\ poll_pc = "floor"
    /\ LET r == dev_pm_opp_find_freq_floor(poll_dev, opp_table, poll_freq)
       IN  /\ poll_freq_hz' = IF r >= 0 THEN r ELSE poll_freq_hz
           /\ poll_pc' = IF r = -ERANGE THEN "ceil" ELSE "publish"
    /\ UNCHANGED <<throttle_irq, irq_requested, irq_depth, irq_pc, work_timer,
                   work_canceling, poll_freq, poll_dev, throttled_freq,
                   thermal_pressure, cancel_throttle, throttle_lock, exit_pc,
                   free_unclaimed, policy_cpus, current_vote, opp_table,
                   runtime_vars, bringup_vars>>

\* Line 1148: dev_pm_opp_find_freq_ceil looks the frequency up in the
\* operating-point table as it is now.
PollCeil ==
    /\ poll_pc = "ceil"
    /\ LET r == dev_pm_opp_find_freq_ceil(poll_dev, opp_table, poll_freq)
       IN  poll_freq_hz' = IF r >= 0 THEN r ELSE poll_freq_hz
    /\ poll_pc' = "publish"
    /\ UNCHANGED <<throttle_irq, irq_requested, irq_depth, irq_pc, work_timer,
                   work_canceling, poll_freq, poll_dev, throttled_freq,
                   thermal_pressure, cancel_throttle, throttle_lock, exit_pc,
                   free_unclaimed, policy_cpus, current_vote, opp_table,
                   runtime_vars, bringup_vars>>

\* Lines 1150-1153: throttled_freq is computed and handed to
\* arch_update_thermal_pressure.
PollPublish ==
    /\ poll_pc = "publish"
    /\ throttled_freq' = ResolveThrottledFreq(poll_freq_hz, poll_freq)
    /\ thermal_pressure' = throttled_freq'
    /\ poll_pc' = "lock"
    /\ UNCHANGED <<throttle_irq, irq_requested, irq_depth, irq_pc, work_timer,
                   work_canceling, poll_freq, poll_dev, poll_freq_hz,
                   cancel_throttle, throttle_lock, exit_pc, free_unclaimed,
                   policy_cpus, current_vote, opp_table, runtime_vars,
                   bringup_vars>>

\* mutex_lock(&data->throttle_lock) in qcom_lmh_dcvs_notify. On a freed
\* mutex it takes the lock the old contents show free, or finds an owner
\* word that never clears and blocks for ever, or faults.
PollLock ==
    /\ poll_pc = "lock"
    /\ \/ /\ throttle_lock = "free"
          /\ throttle_lock' = "poll"
          /\ poll_pc' = "decide"
       \/ /\ DataFreed
          /\ poll_pc' \in {"blocked", "fault"}
          /\ UNCHANGED throttle_lock
    /\ UNCHANGED <<throttle_irq, irq_requested, irq_depth, irq_pc, work_timer,
                   work_canceling, poll_freq, poll_dev,
                   poll_freq_hz, throttled_freq, thermal_pressure,
                   cancel_throttle, exit_pc, free_unclaimed, policy_cpus, current_vote,
                   opp_table, runtime_vars, bringup_vars>>

\* Mutant of PollDecide: the cancellation flag is not looked at.
PollDecide_IgnoresCancel ==
    /\ poll_pc = "decide"
    /\ \/ /\ poll_pc' = "unlock"
          /\ IF NotifyRearmsIrq(throttled_freq, PolicyFound, freq_table,
                                perf_state) THEN
                  /\ irq_depth' = irq_depth - 1
                  /\ UNCHANGED work_timer
             ELSE /\ work_timer' = IF work_canceling THEN work_timer
                                   ELSE POLL_DELAY_MS
                  /\ UNCHANGED irq_depth
       \/ /\ DataFreed
          /\ poll_pc' = "fault"
          /\ UNCHANGED <<irq_depth, work_timer>>
    /\ UNCHANGED <<throttle_irq, irq_requested, irq_pc, work_canceling,
                   poll_freq, poll_dev,
                   poll_freq_hz, throttled_freq, thermal_pressure, cancel_throttle,
                   throttle_lock, exit_pc, free_unclaimed, policy_cpus, current_vote,
                   opp_table, runtime_vars, bringup_vars>>

\* The body under the lock: stop if cancelled, else re-enable the interrupt
\* or re-arm the poll 10 ms later (mod_delayed_work; it does nothing while
\* cancel_delayed_work_sync owns the work). The comparison is with what
\* qcom_cpufreq_hw_get returns: 0 while cpufreq_cpu_get_raw finds no policy. On freed
\* data the flag reads as the old contents have it (set), or the flag reads
\* clear and the dereference of the freed policy pointer faults.
PollDecide ==
    /\ poll_pc = "decide"
    /\ \/ /\ poll_pc' = "unlock"
          /\ IF cancel_throttle THEN
                  UNCHANGED <<irq_depth, work_timer>>
             ELSE IF NotifyRearmsIrq(throttled_freq, PolicyFound, freq_table,
                                     perf_state) THEN
                  /\ irq_depth' = irq_depth - 1
                  /\ UNCHANGED work_timer
             ELSE /\ work_timer' = IF work_canceling THEN work_timer
                                   ELSE POLL_DELAY_MS
                  /\ UNCHANGED irq_depth
       \/ /\ DataFreed
          /\ poll_pc' = "fault"
          /\ UNCHANGED <<irq_depth, work_timer>>
    /\ UNCHANGED <<throttle_irq, irq_requested, irq_pc, work_canceling,
                   poll_freq, poll_dev,
                   poll_freq_hz, throttled_freq, thermal_pressure, cancel_throttle,
                   throttle_lock, exit_pc, free_unclaimed, policy_cpus, current_vote,
                   opp_table, runtime_vars, bringup_vars>>

\* mutex_unlock and return of the work function; on a freed mutex the
\* unlock works on the old contents, or spins on the wait lock for ever, or
\* faults.
PollUnlock ==
    /\ poll_pc = "unlock"
    /\ \/ /\ throttle_lock' = "free"
          /\ poll_pc' = "idle"
       \/ /\ DataFreed
          /\ poll_pc' \in {"blocked", "fault"}
          /\ UNCHANGED throttle_lock
    /\ UNCHANGED <<throttle_irq, irq_requested, irq_depth, irq_pc, work_timer,
                   work_canceling, poll_freq, poll_dev,
                   poll_freq_hz, throttled_freq, thermal_pressure,
                   cancel_throttle, exit_pc, free_unclaimed, policy_cpus, current_vote,
                   opp_table, runtime_vars, bringup_vars>>

\* qcom_cpufreq_hw_cpu_exit is entered (lines 1593-1598). The cpufreq core
\* calls the .exit callback (line 1625) of a registered policy when its last
\* CPU goes offline, after it has emptied policy->cpus; and of a policy it
\* fails to register after .init returned 0, with policy->cpus as .init
\* left it.
CpuExitEnter ==
    /\ exit_pc \in {"registering", "live"}
    /\ policy_cpus' = (exit_pc = "registering")
    /\ exit_pc' = "remove_opps"
    /\ UNCHANGED <<throttle_irq, irq_requested, irq_depth, irq_pc, work_timer,
                   work_canceling, poll_pc, poll_freq, poll_dev,
                   poll_freq_hz, throttled_freq, thermal_pressure,
                   cancel_throttle, throttle_lock, free_unclaimed, current_vote,
                   opp_table, runtime_vars, bringup_vars>>

\* qcom_cpufreq_hw_cpu_exit, lines 1600-1601: dev_pm_opp_remove_all_dynamic
\* (the OPPs qcom_cpufreq_hw_read_lut added) and
\* dev_pm_opp_of_cpumask_remove_table (those of a device-tree table) take
\* the OPPs off the table one at a time, in the order of the OPP list, which
\* is by rising rate. This is the removal of one OPP.
CpuExitRemoveOpp ==
    /\ exit_pc = "remove_opps"
    /\ opp_table.present
    /\ opp_table.rates # {}
    /\ opp_table' = OppTable(opp_table.rates \ {SetMin(opp_table.rates)})
    /\ UNCHANGED <<throttle_irq, irq_requested, irq_depth, irq_pc, work_timer,
                   work_canceling, poll_pc, poll_freq, poll_dev,
                   poll_freq_hz, throttled_freq, thermal_pressure,
                   cancel_throttle, throttle_lock, exit_pc, free_unclaimed,
                   policy_cpus, current_vote, runtime_vars, bringup_vars>>

\* Lines 1600-1601, the end: with the last OPP gone the table itself is
\* dropped, and qcom_cpufreq_hw_cpu_exit goes on to lmh_exit.
CpuExitRemoveTable ==
    /\ exit_pc = "remove_opps"
    /\ opp_table.rates = {}
    /\ opp_table' = NoOppTable
    /\ exit_pc' = "lmh_exit"
    /\ UNCHANGED <<throttle_irq, irq_requested, irq_depth, irq_pc, work_timer,
                   work_canceling, poll_pc, poll_freq, poll_dev,
                   poll_freq_hz, throttled_freq, thermal_pressure,
                   cancel_throttle, throttle_lock, free_unclaimed, policy_cpus,
                   current_vote, runtime_vars, bringup_vars>>

\* qcom_cpufreq_hw_lmh_exit, entry: nothing to do without an interrupt
\* number, else mutex_lock.
ExitEnter ==
    /\ exit_pc = "lmh_exit"
    /\ IF throttle_irq <= 0 THEN
            /\ exit_pc' = "release"
            /\ UNCHANGED throttle_lock
       ELSE /\ throttle_lock = "free"
            /\ throttle_lock' = "exit"
            /\ exit_pc' = "locked"
    /\ UNCHANGED <<throttle_irq, irq_requested, irq_depth, irq_pc, work_timer,
                   work_canceling, poll_pc, poll_freq, poll_dev,
                   poll_freq_hz, throttled_freq, thermal_pressure,
                   cancel_throttle, free_unclaimed, policy_cpus, current_vote, opp_table,
                   runtime_vars, bringup_vars>>

\* data->cancel_throttle = true; mutex_unlock
ExitCancel ==
    /\ exit_pc = "locked"
    /\ cancel_throttle' = TRUE
    /\ throttle_lock' = "free"
    /\ exit_pc' = "cancel_work"
    /\ UNCHANGED <<throttle_irq, irq_requested, irq_depth, irq_pc, work_timer,
                   work_canceling, poll_pc, poll_freq, poll_dev,
                   poll_freq_hz, throttled_freq, thermal_pressure,
                   free_unclaimed, policy_cpus, current_vote, opp_table, runtime_vars, bringup_vars>>

\* cancel_delayed_work_sync, first half: take the work off the queue / timer
ExitCancelWork ==
    /\ exit_pc = "cancel_work"
    /\ work_timer' = -1
    /\ work_canceling' = TRUE
    /\ exit_pc' = "flush_work"
    /\ UNCHANGED <<throttle_irq, irq_requested, irq_depth, irq_pc, poll_pc,
                   poll_freq, poll_dev,
                   poll_freq_hz, throttled_freq, thermal_pressure, cancel_throttle,
                   throttle_lock, free_unclaimed, policy_cpus, current_vote, opp_table,
                   runtime_vars, bringup_vars>>

\* cancel_delayed_work_sync, second half: wait for a running instance
ExitFlushWork ==
    /\ exit_pc = "flush_work"
    /\ poll_pc = "idle"
    /\ work_canceling' = FALSE
    /\ exit_pc' = "free_irq"
    /\ UNCHANGED <<throttle_irq, irq_requested, irq_depth, irq_pc, work_timer,
                   poll_pc, poll_freq, poll_dev,
                   poll_freq_hz, throttled_freq, thermal_pressure, cancel_throttle,
                   throttle_lock, free_unclaimed, policy_cpus, current_vote, opp_table,
                   runtime_vars, bringup_vars>>

\* free_irq waits for a running handler thread, then releases the line;
\* qcom_cpufreq_hw_lmh_exit returns.
ExitFreeIrq ==
    /\ exit_pc = "free_irq"
    /\ irq_pc = "idle"
    /\ free_unclaimed' = ~irq_requested
    /\ irq_requested' = FALSE
    /\ exit_pc' = "release"
    /\ UNCHANGED <<throttle_irq, irq_depth, irq_pc, work_timer, work_canceling,
                   poll_pc, poll_freq, poll_dev,
                   poll_freq_hz, throttled_freq, thermal_pressure, cancel_throttle,
                   throttle_lock, policy_cpus, current_vote, opp_table,
                   runtime_vars, bringup_vars>>

\* qcom_cpufreq_hw_cpu_exit, lines 1603-1608: kfree(policy->freq_table),
\* kfree(data), iounmap and release_mem_region, then the return. kfree
\* leaves policy->freq_table dangling: freq_table keeps the contents a read
\* of the freed memory may still find.
CpuExitRelease ==
    /\ exit_pc = "release"
    /\ resources' = NoResources
    /\ exit_pc' = "returned"
    /\ UNCHANGED <<throttle_irq, irq_requested, irq_depth, irq_pc, work_timer,
                   work_canceling, poll_pc, poll_freq, poll_dev,
                   poll_freq_hz, throttled_freq, thermal_pressure,
                   cancel_throttle, throttle_lock, free_unclaimed, policy_cpus, current_vote,
                   opp_table, runtime_vars, platform, init_pc, init_ret, wlog,
                   lut_regs, enable_reg, wl, acd_ret, icc_scaling_enabled>>

NextThrottle ==
    \/ \E irq \in {-ENXIO, -EINVAL, 37}, claimed \in BOOLEAN : LmhInit(irq, claimed)
    \/ CpuInitReturn
    \/ PolicyRegister
    \/ \E v \in VoteVals : HwVote(v)
    \/ \E i \in 0..(ThrottleEntries - 1) : ThrottleSetIndex(i)
    \/ IrqDisable
    \/ IrqSchedule
    \/ TimerExpire
    \/ PollBegin
    \/ PollFloor
    \/ PollCeil
    \/ PollPublish
    \/ PollLock
    \/ PollDecide
    \/ PollUnlock
    \/ CpuExitEnter
    \/ CpuExitRemoveOpp
    \/ CpuExitRemoveTable
    \/ ExitEnter
    \/ ExitCancel
    \/ ExitCancelWork
    \/ ExitFlushWork
    \/ ExitFreeIrq
    \/ CpuExitRelease

SpecThrottle == InitThrottle /\ [][NextThrottle]_vars

(***************************************************************************)
(* Domain initialization: qcom_cpufreq_hw_cpu_init                         *)
(***************************************************************************)
Init ==
    /\ ThrottleIdle
    /\ platform \in Platforms
    /\ init_pc = "start"
    /\ init_ret = 0
    /\ wlog = <<>>
    /\ lut_regs \in IF uses_tz(platform.soc)
                    THEN {FirmwareLut(platform.soc, t) : t \in FirmwareTables}
                    ELSE {BlankLut}
    /\ enable_reg \in IF uses_tz(platform.soc) THEN {0, 1, 2} ELSE {0}
    /\ wl = NoWriteLut
    /\ acd_ret = 0
    /\ icc_scaling_enabled = FALSE
    /\ resources = NoResources
    /\ perf_state = 0
    /\ freq_table = [i \in 0..LUT_MAX_ENTRIES |-> 0]
    /\ run_op = "none"
    /\ last_write = "none"
    /\ last_index = 0
    /\ get_ret = 0
    /\ set_ret = 0
    /\ bw_vote = NoBwVote

\* Mutant of NeedsOsmSetup: the capability flag is not consulted.
NeedsOsmSetup_Always(soc) == TRUE

\* Line 1536: `if (!data->soc_data->uses_tz)`
NeedsOsmSetup(soc) == ~uses_tz(soc)

\* Mutant of AcdPresent: the ACD block is taken to be there.
AcdPresent_Always(pf) == TRUE

\* Lines 716-720: devm_platform_ioremap_resource_byname of "osm-acdN" did
\* not fail.
AcdPresent(pf) == pf.acd_rsrc

\* Mutant of AcdFailed: a timed-out transfer is not treated as a failure.
AcdFailed_Ignored(ret) == FALSE

\* Line 1454: `if (ret) return ret` after qcom_cpufreq_hw_acd_init
AcdFailed(ret) == ret # 0

\* The LUT registers after the register writes of log: each field holds
\* what the last write to it stored.
LutAfter(lut, log) ==
    LET ws == {k \in 1..Len(log) : log[k].op = "writel"}
        last(reg, i, old) ==
            LET ks == {k \in ws : log[k].idx = i /\ log[k].reg = reg}
            IN  IF ks = {} THEN old ELSE log[SetMax(ks)].val
    IN  IF ws = {} THEN lut
        ELSE [i \in 0..(LUT_MAX_ENTRIES - 1) |->
                 Row(last("volt_lut", i, lut[i].volt_lut_val),
                     last("freq_lut", i, lut[i].freq_lut_val),
                     last("override", i, lut[i].override_val),
                     last("spare", i, lut[i].spare_val))]

\* The labels error, unmap_base and release_region (lines 1583-1590): a
\* step that fails releases the data, the mapping and the region.
ReleasedOnError ==
    resources' = IF init_pc' = "failed" THEN Released(resources) ELSE resources

\* The acquisition steps of lines 1478-1533, in the order of the code, and
\* "none" when every one of them succeeds.
AcquireSteps ==
    {"none", "cpu_dev", "cpu_np", "phandle", "mem_resource", "mem_region",
     "ioremap", "kzalloc", "related_cpus"}
\* What of_parse_phandle_with_args returns when it fails (line 1489).
ParseErrors == {-ENOENT, -EINVAL}
\* The value qcom_cpufreq_hw_cpu_init returns when the step fails: lines
\* 1482, 1487, 1493, 1502, 1507, 1513, 1519 and 1531.
AcquireError(step, parse_ret) ==
    CASE step = "cpu_dev" -> -ENODEV
      [] step = "cpu_np" -> -EINVAL
      [] step = "phandle" -> parse_ret
      [] step = "mem_resource" -> -ENODEV
      [] step = "mem_region" -> -EBUSY
      [] step = "ioremap" -> -ENOMEM
      [] step = "kzalloc" -> -ENOMEM
      [] step = "related_cpus" -> -ENOENT

\* Lines 1478-1536: the resources of the domain are acquired (failed names
\* the step that fails, "none" when they all succeed; the early returns
\* hold nothing yet and the labels release_region, unmap_base and error
\* release what was taken), then the capability flag decides on bring-up.
CpuInitBegin(failed, parse_ret) ==
    /\ init_pc = "start"
    /\ IF failed # "none" THEN
            /\ init_pc' = "failed"
            /\ init_ret' = AcquireError(failed, parse_ret)
            /\ resources' = NoResources
       ELSE /\ init_pc' = IF NeedsOsmSetup(platform.soc) THEN "write_lut"
                          ELSE "check_enabled"
            /\ resources' = MappedResources
            /\ UNCHANGED init_ret
    /\ UNCHANGED <<platform, wlog, lut_regs, enable_reg, wl, acd_ret,
                   icc_scaling_enabled, throttle_vars, runtime_vars>>

\* qcom_cpufreq_hw_osm_setup, line 1367: qcom_cpufreq_hw_write_lut up to the
\* check of the derived pairs (lines 787-881)
OsmWriteLut ==
    /\ init_pc = "write_lut"
    /\ wl' = WriteLutReturned(WriteLutRows(platform))
    /\ wlog' = wlog \o WriteLutRows(platform).log
    /\ lut_regs' = LutAfter(lut_regs, wlog')
    /\ IF wl'.ret # 0 THEN /\ init_pc' = "failed"
                           /\ init_ret' = wl'.ret
       ELSE /\ init_pc' = "sequencer"
            /\ UNCHANGED init_ret
    /\ ReleasedOnError
    /\ UNCHANGED <<platform, enable_reg, acd_ret, icc_scaling_enabled,
                   throttle_vars, runtime_vars>>

\* qcom_cpufreq_hw_write_lut from there to its return (lines 883-975).
\* scm_fail: which qcom_scm_io_writel returns an error (0: none).
OsmWriteSequencer(scm_fail) ==
    /\ init_pc = "sequencer"
    /\ LET r == WriteLutSequencer(wl, wl.acc_std, scm_fail)
       IN  /\ wl' = [wl EXCEPT !.ret = r.ret, !.acc_val = r.acc_val,
                               !.custom = r.custom]
           /\ wlog' = wlog \o r.log
    /\ IF wl'.ret # 0 THEN /\ init_pc' = "failed"
                           /\ init_ret' = wl'.ret
       ELSE /\ init_pc' = "setup_regs"
            /\ UNCHANGED init_ret
    /\ ReleasedOnError
    /\ UNCHANGED <<platform, lut_regs, enable_reg, acd_ret, icc_scaling_enabled,
                   throttle_vars, runtime_vars>>

\* qcom_cpufreq_hw_osm_setup, lines 1371-1450. rd: what the droop control
\* and the FSM control registers hold before.
OsmSetupRegs(rd) ==
    /\ init_pc = "setup_regs"
    /\ wlog' = wlog \o SetupAccesses(rd, rd)
    /\ init_pc' = "acd_init"
    /\ ReleasedOnError
    /\ UNCHANGED <<platform, init_ret, lut_regs, enable_reg, wl, acd_ret,
                   icc_scaling_enabled, throttle_vars, runtime_vars>>

\* qcom_cpufreq_hw_osm_setup, lines 1453-1455: qcom_cpufreq_hw_acd_init
OsmAcdInit(poll_fail) ==
    /\ init_pc = "acd_init"
    /\ LET r == qcom_cpufreq_hw_acd_init(platform.soc, AcdPresent(platform),
                                         poll_fail)
       IN  /\ wlog' = wlog \o r.log
           /\ acd_ret' = r.ret
           /\ IF AcdFailed(r.ret) THEN /\ init_pc' = "failed"
                                       /\ init_ret' = r.ret
              ELSE /\ init_pc' = "enable"
                   /\ UNCHANGED init_ret
    /\ ReleasedOnError
    /\ UNCHANGED <<platform, lut_regs, enable_reg, wl, icc_scaling_enabled,
                   throttle_vars, runtime_vars>>

\* qcom_cpufreq_hw_osm_setup, lines 1457-1461: enable the OSM, give it
\* udelay(OSM_BOOT_TIME_US) to boot, return 0.
\* latched: the hardware takes the enable bit; the driver reads the register
\* back at line 1547 to find out.
OsmEnable(latched) ==
    /\ init_pc = "enable"
    /\ wlog' = wlog \o <<Writel("reg_enable", 0, 1), Delay(OSM_BOOT_TIME_US)>>
    /\ enable_reg' = IF latched THEN 1 ELSE enable_reg
    /\ init_pc' = "check_enabled"
    /\ ReleasedOnError
    /\ UNCHANGED <<platform, init_ret, lut_regs, wl, acd_ret,
                   icc_scaling_enabled, throttle_vars, runtime_vars>>

\* Mutant of HwEnabled: any bit of the enable register counts.
HwEnabled_AnyBit(regval) == regval # 0

\* Line 1547: `readl_relaxed(base + reg_enable) & 0x1`
HwEnabled(regval) == regval % 2 = 1

\* Lines 1546-1551: the hardware must be enabled to proceed
CheckEnabled ==
    /\ init_pc = "check_enabled"
    /\ wlog' = Append(wlog, ReadAcc("reg_enable", enable_reg))
    /\ IF ~HwEnabled(enable_reg) THEN /\ init_pc' = "failed"
                                  /\ init_ret' = -ENODEV
       ELSE /\ init_pc' = "read_lut"
            /\ UNCHANGED init_ret
    /\ ReleasedOnError
    /\ UNCHANGED <<platform, lut_regs, enable_reg, wl, acd_ret,
                   icc_scaling_enabled, throttle_vars, runtime_vars>>

\* Lines 1553-1564: qcom_cpufreq_hw_read_lut, then the OPP count check
ReadLut(dt, fail_khz) ==
    /\ init_pc = "read_lut"
    /\ LET r == qcom_cpufreq_hw_read_lut(platform.soc, lut_regs, dt, fail_khz)
           cnt == IF r.opps.present THEN Cardinality(r.opps.rates) ELSE -ENODEV
       IN  /\ wlog' = wlog \o r.log
           /\ IF r.ret # 0 THEN
                   /\ init_pc' = "failed"
                   /\ init_ret' = r.ret
                   /\ UNCHANGED <<freq_table, opp_table, icc_scaling_enabled>>
              ELSE /\ freq_table' = r.table
                   /\ opp_table' = r.opps
                   /\ icc_scaling_enabled' = r.icc
                   /\ IF cnt <= 0 THEN /\ init_pc' = "failed"
                                       /\ init_ret' = -ENODEV
                      ELSE /\ init_pc' = "lmh_init"
                           /\ UNCHANGED init_ret
           /\ LET held == IF r.ret = 0 THEN [resources EXCEPT !.table = TRUE]
                          ELSE resources
              IN  resources' = IF init_pc' = "failed" THEN Released(held) ELSE held
    /\ UNCHANGED <<platform, lut_regs, enable_reg, wl, acd_ret,
                   throttle_irq, irq_requested, irq_depth, irq_pc, work_timer,
                   work_canceling, poll_pc, poll_freq, poll_dev,
                   poll_freq_hz, throttled_freq,
                   thermal_pressure, cancel_throttle, throttle_lock, exit_pc,
                   free_unclaimed, policy_cpus, current_vote,
                   perf_state, run_op, last_write, last_index, get_ret,
                   set_ret, bw_vote>>

\* the scm calls of qcom_cpufreq_hw_write_lut and the polls of ACD init
MaxScmCalls == 10
MaxAcdPolls == 5
\* what the two read-modify-write registers hold after reset
SetupReadVals == {0, 4}
\* the frequencies qcom_cpufreq_update_opp may refuse: none, the second
\* corner of the firmware tables, every one
UpdateFailures ==
    {{}, {XO_RATE_KHZ * 47}, {CPU_HW_RATE_KHZ} \cup {XO_RATE_KHZ * l : l \in 0..255}}

Next ==
    \/ \E failed \in AcquireSteps, parse_ret \in ParseErrors :
           CpuInitBegin(failed, parse_ret)
    \/ OsmWriteLut
    \/ \E scm_fail \in 0..MaxScmCalls : OsmWriteSequencer(scm_fail)
    \/ \E rd \in SetupReadVals : OsmSetupRegs(rd)
    \/ \E poll_fail \in 0..MaxAcdPolls : OsmAcdInit(poll_fail)
    \/ \E latched \in BOOLEAN : OsmEnable(latched)
    \/ CheckEnabled
    \/ \E dt \in {"table", "none", "invalid"}, fail_khz \in UpdateFailures :
           ReadLut(dt, fail_khz)
    \/ \E irq \in {-ENXIO, -EINVAL, 37}, claimed \in BOOLEAN : LmhInit(irq, claimed)
    \/ CpuInitReturn

Spec == Init /\ [][Next]_vars

(***************************************************************************)
(* Runtime control of an initialized domain                                *)
(***************************************************************************)
\* The policy framework calls with an index below the entry count.
EntryCount(tbl) ==
    SetMin({i \in 0..LUT_MAX_ENTRIES : tbl[i] = CPUFREQ_TABLE_END})

\* What qcom_cpufreq_set_bw can return for the CPU device cpu_init found:
\* success, no OPP of that frequency, a failure of dev_pm_opp_set_opp.
BwVoteResults ==
    {qcom_cpufreq_set_bw(TRUE, o, r) : o \in BOOLEAN, r \in {0, -EINVAL}}

\* What the performance state register holds when the policy is created,
\* before the driver has written it: the hardware's own state, here the
\* first row, the fifth row and a value past the LUT depth.
PerfStateResetVals == {0, 4, 255}

InitRuntime ==
    /\ ThrottleIdle
    /\ \E soc \in SocVariants, t \in FirmwareTables, dt \in {"table", "none"} :
          \* the table of forty distinct rows on one variant only
          /\ Len(t) = LUT_MAX_ENTRIES => soc = "qcom"
          /\ platform = DefaultPlatform(soc)
          /\ lut_regs = FirmwareLut(soc, t)
          /\ freq_table = qcom_cpufreq_hw_read_lut(soc, lut_regs, dt, {}).table
          /\ icc_scaling_enabled = (dt = "table")
    /\ init_pc = "done"
    /\ init_ret = 0
    /\ wlog = <<>>
    /\ enable_reg = 1
    /\ resources = AllResources
    /\ wl = NoWriteLut
    /\ acd_ret = 0
    /\ perf_state \in PerfStateResetVals
    /\ run_op = "none"
    /\ last_write = "none"
    /\ last_index = 0
    /\ get_ret = 0
    /\ set_ret = 0
    /\ bw_vote = NoBwVote

\* qcom_cpufreq_hw_target_index. bw_ret: what qcom_cpufreq_set_bw returns
\* if it is called.
SetIndex(index, bw_ret) ==
    /\ perf_state' = index
    /\ bw_vote' = IF icc_scaling_enabled
                  THEN [called |-> TRUE, ret |-> bw_ret]
                  ELSE bw_vote
    /\ set_ret' = TargetIndexReturn(IF icc_scaling_enabled THEN bw_ret ELSE 0)
    /\ run_op' = "set"
    /\ last_write' = "set"
    /\ last_index' = index
    /\ UNCHANGED <<freq_table, get_ret, throttle_vars, bringup_vars>>

\* qcom_cpufreq_hw_fast_switch with policy->cached_resolved_idx = index
FastPath(index) ==
    /\ perf_state' = index
    /\ run_op' = "fast"
    /\ last_write' = "fast"
    /\ last_index' = index
    /\ UNCHANGED <<freq_table, get_ret, set_ret, bw_vote, throttle_vars,
                   bringup_vars>>

\* qcom_cpufreq_hw_get as the .get callback: the cpufreq core calls it for a
\* CPU of an active policy, so cpufreq_cpu_get_raw finds the policy.
GetCurrent ==
    /\ get_ret' = qcom_cpufreq_hw_get(TRUE, freq_table, perf_state)
    /\ run_op' = "get"
    /\ UNCHANGED <<perf_state, freq_table, last_write, last_index, set_ret,
                   bw_vote, throttle_vars, bringup_vars>>

NextRuntime ==
    \/ \E i \in 0..(EntryCount(freq_table) - 1),
          bw_ret \in IF icc_scaling_enabled THEN BwVoteResults ELSE {0} :
           SetIndex(i, bw_ret)
    \/ \E i \in 0..(EntryCount(freq_table) - 1) : FastPath(i)
    \/ GetCurrent

SpecRuntime == InitRuntime /\ [][NextRuntime]_vars

(***************************************************************************)
(* Claims on the throttle notifier                                         *)
(***************************************************************************)
\* The frequency the policy most recently requested: the row that
\* ThrottleSetIndex last wrote to the performance state register.
RequestedKhz == ThrottleKhz(perf_state)

\* A poll iteration takes its decision and is not cancelled.
UncancelledDecision ==
    poll_pc = "decide" /\ poll_pc' = "unlock" /\ ~cancel_throttle

\* The two outcomes C2 names.
BackToIrqArmed == irq_depth = 1 /\ irq_depth' = 0 /\ work_timer' = -1
StaysPolling ==
    work_timer' = POLL_DELAY_MS /\ irq_depth' = irq_depth /\ irq_depth' >= 1

\* C1: once teardown (qcom_cpufreq_hw_lmh_exit) has returned, no poll is
\* scheduled, waiting for its delay, or running. The code violates it: an
\* interrupt handled between cancel_delayed_work_sync and free_irq queues
\* the work again, and nothing cancels it afterwards.
C1_NoPollAfterTeardown ==
    exit_pc \in {"release", "returned"} => (work_timer = -1 /\ poll_pc = "idle")

\* C2 as stated, whichever of the two the throttled frequency it read is,
\* the vote frequency read from the register or that frequency resolved
\* against the operating-point table: an uncancelled poll whose throttled
\* frequency is at or above the requested frequency re-enables the interrupt
\* and schedules nothing, one whose throttled frequency is lower schedules
\* one poll 10 ms later and leaves the interrupt disabled. The code violates
\* it: while cpufreq_cpu_get_raw finds no policy, qcom_cpufreq_hw_get
\* returns 0 and the poll re-enables the interrupt although the throttled
\* frequency is below the requested one.
C2_ThrottledFreqDecides ==
    [][UncancelledDecision =>
          \/ IF poll_freq >= RequestedKhz THEN BackToIrqArmed ELSE StaysPolling
          \/ IF throttled_freq >= RequestedKhz THEN BackToIrqArmed
             ELSE StaysPolling]_vars

(***************************************************************************)
(* Claims on domain initialization                                         *)
(***************************************************************************)
\* qcom_cpufreq_hw_write_lut has returned 0.
WriteLutSucceeded ==
    wl.ran /\ wl.ret = 0 /\ init_pc \notin {"write_lut", "sequencer"}

\* The values the firmware calls stored at byte offset n of the sequencer.
ScmVals(n) ==
    {wlog[k].val : k \in {j \in 1..Len(wlog) :
                             wlog[j].op = "scm" /\ wlog[j].idx = n}}

\* The four MEM-ACC registers each received exactly the value v[k].
MemAccWritten(v) ==
    \A k \in 1..SEQ_MEM_ACC_MAX_LEVELS : ScmVals(SEQ_MEMACC_REG(k - 1)) = {v[k]}

\* C3: whenever the programming of the table and of the crossovers has
\* succeeded, four MEM-ACC indices were written, strictly ascending and none
\* negative. The code violates it: spare values rising at two consecutive
\* rows give the pairs (0,1) and (1,2), written as 0, 1, 1, 2.
C3_MemAccStrictlyAscending ==
    WriteLutSucceeded =>
        /\ Len(wl.acc_val) = SEQ_MEM_ACC_MAX_LEVELS
        /\ MemAccWritten(wl.acc_val)
        /\ wl.acc_val[1] >= 0
        /\ \A k \in 1..(SEQ_MEM_ACC_MAX_LEVELS - 1) : wl.acc_val[k] < wl.acc_val[k + 1]

\* The accesses that change the controller or call the firmware.
IsWrite(a) == a.op \in {"writel", "scm", "poll"}

\* C4: a domain of a SoC variant flagged as configured by trusted firmware
\* sees no register write, no firmware call and no ACD handshake during
\* initialization; whatever bring-up access is made, is made on a variant
\* not so flagged.
C4_FirmwareOwnedUntouched ==
    \A k \in 1..Len(wlog) : IsWrite(wlog[k]) => ~uses_tz(platform.soc)

\* C4 witness: a firmware-owned domain is initialized to the end, having
\* read the enable register and the LUT.
C4_Witness ==
    /\ uses_tz(platform.soc)
    /\ init_pc = "done"
    /\ Len(wlog) > LUT_MAX_ENTRIES

EnableWrites ==
    {k \in 1..Len(wlog) : wlog[k].op = "writel" /\ wlog[k].reg = "reg_enable"}

SetupRegNames ==
    {"reg_cycle_counter", "reg_spm_cc_hyst", "reg_cc_zero_behav",
     "reg_spm_core_ret_map", "reg_spm_cc_dcvs_dis", "reg_llm_freq_vote_hyst",
     "reg_llm_volt_vote_hyst", "reg_llm_intf_dcvs_dis", "reg_cc_boost_timer",
     "reg_dcvs_boost_timer", "reg_ps_boost_timer", "reg_boost_sync_delay",
     "reg_droop_unstall_ctrl", "reg_droop_wait_release_ctrl",
     "reg_droop_sync_delay", "reg_droop_release_ctrl", "reg_droop_timer_ctrl",
     "reg_droop_ctrl", "reg_pdn_fsm_ctrl", "reg_pll_override"}

\* The accesses of the log from position a up to, not including, position b.
Between(a, b) == {j \in a..(b - 1) : j >= 1 /\ j <= Len(wlog)}

\* C5: the enable register is written only when the table programming and
\* the ACD initialization have returned 0 and every LUT slot, the last
\* sequencer register and every setup register have been written before it
\* with no failed call among them; nothing but reads follows it; and when the
\* table programming or the ACD initialization fails, initialization returns
\* that error and the enable register is not written.
C5_EnableLastAndOnlyOnSuccess ==
    /\ \A k \in EnableWrites :
          /\ wl.ran /\ wl.ret = 0 /\ acd_ret = 0
          /\ \A j \in Between(1, k) : wlog[j].ret = 0
          /\ \A i \in 0..(LUT_MAX_ENTRIES - 1) :
                wlog[5 * i + 3] = Writel("freq_lut", i, lut_regs[i].freq_lut_val)
          /\ \E j \in Between(5 * LUT_MAX_ENTRIES + 1, k) :
                wlog[j].op = "scm" /\ wlog[j].idx = SEQUENCER_REG(SEQ_APM_PARAM)
          /\ \A reg \in SetupRegNames :
                \E j \in Between(5 * LUT_MAX_ENTRIES + 1, k) :
                    wlog[j].op = "writel" /\ wlog[j].reg = reg
          /\ \A j \in Between(k + 1, Len(wlog) + 1) : ~IsWrite(wlog[j])
    /\ (wl.ret # 0 \/ acd_ret # 0) =>
          /\ EnableWrites = {}
          /\ init_pc = "failed"
          /\ init_ret = IF wl.ret # 0 THEN wl.ret ELSE acd_ret

\* C5 witness: bring-up with an ACD block went through, the enable register
\* was written and initialization finished.
C5_Witness ==
    /\ init_pc = "done"
    /\ EnableWrites # {}
    /\ \E k \in 1..Len(wlog) : wlog[k].op = "poll"

\* C7: once the table programmer has a table of n >= 2 rows, all 40 LUT
\* slots are written, slot i < n with the four fields of row i and every slot
\* from n to 39 with the four fields of row n-1, and the registers hold them.
C7_AllSlotsWritten ==
    (wl.ran /\ wl.num_entries >= 2) =>
        \A i \in 0..(LUT_MAX_ENTRIES - 1) :
            LET row == IF i < wl.num_entries THEN wl.hw_tbl[i + 1]
                       ELSE wl.hw_tbl[wl.num_entries]
            IN  /\ lut_regs[i] = row
                /\ SubSeq(wlog, 5 * i + 2, 5 * i + 5) =
                       << Writel("volt_lut", i, row.volt_lut_val),
                          Writel("freq_lut", i, row.freq_lut_val),
                          Writel("override", i, row.override_val),
                          Writel("spare", i, row.spare_val) >>

\* C7 witness: a table of three rows was programmed; the last slot holds the
\* third row, which differs from the first.
C7_Witness ==
    /\ wl.ran
    /\ wl.num_entries = 3
    /\ lut_regs[LUT_MAX_ENTRIES - 1] = wl.hw_tbl[3]
    /\ lut_regs[LUT_MAX_ENTRIES - 1] # lut_regs[0]

\* The first corner already reaches the MEM-ACC threshold: the candidate is
\* corner 0.
AccCandidateIsCornerZero ==
    /\ platform.acc_uV > 0
    /\ Len(platform.opps) > 0
    /\ platform.opps[1].uV >= platform.acc_uV

\* C8: when the MEM-ACC threshold candidate is corner 0 and the programming
\* succeeds, the four MEM-ACC registers hold exactly the pairs taken from the
\* spare values and the customized-crossover register is not written.
C8_CornerZeroNotRequired ==
    (AccCandidateIsCornerZero /\ WriteLutSucceeded) =>
        /\ MemAccWritten(wl.acc_std)
        /\ ScmVals(SEQUENCER_REG(SEQ_MEM_ACC_CROSSOVER_VC)) = {}

\* C8 witness: the programming succeeded with the candidate at corner 0, on
\* a table whose pairs the customized path would have altered.
C8_Witness ==
    /\ AccCandidateIsCornerZero
    /\ WriteLutSucceeded
    /\ wl.acc_std = <<0, 1, 1, 2>>

\* C9: when a customized MEM-ACC corner is applied, no negative index is
\* written to a MEM-ACC register. The code violates it: the repair of the
\* lower pair subtracts without a check, and the result is written.
C9_NoNegativeIndexWritten ==
    wl.custom =>
        \A k \in 0..(SEQ_MEM_ACC_MAX_LEVELS - 1) :
            \A v \in ScmVals(SEQ_MEMACC_REG(k)) : v >= 0

\* No corner of the table reaches the APM threshold.
ApmThresholdNeverReached ==
    \A i \in 1..Len(platform.opps) : platform.opps[i].uV < platform.apm_uV

\* C10: when no corner reaches the APM threshold and the programming
\* succeeds, the APM threshold corner written is 39 and its predecessor 38.
\* The code violates it: the reader presets the corner to -1, so the default
\* of the programmer never applies and -1 and -2 are written.
C10_ApmDefaultsToLastSlot ==
    (ApmThresholdNeverReached /\ WriteLutSucceeded) =>
        /\ ScmVals(SEQUENCER_REG(SEQ_APM_THRESH_VC)) = {LUT_MAX_ENTRIES - 1}
        /\ ScmVals(SEQUENCER_REG(SEQ_APM_THRESH_PREVC)) = {LUT_MAX_ENTRIES - 2}

(***************************************************************************)
(* Claims on runtime control                                               *)
(***************************************************************************)
\* C6: what qcom_cpufreq_hw_get returns, when the last write of the
\* performance state register came from qcom_cpufreq_hw_target_index, is the
\* frequency of the row that call was given.
C6_GetReturnsLastSetRow ==
    (run_op = "get" /\ last_write = "set") => get_ret = freq_table[last_index]

\* C6 witness: the current frequency was read after an index other than the
\* initial one was set, and it is that row's frequency and not row 0's.
C6_Witness ==
    /\ run_op = "get"
    /\ last_write = "set"
    /\ last_index > 0
    /\ get_ret = freq_table[last_index]
    /\ get_ret # freq_table[0]

(***************************************************************************)
(* Claims on the end-to-end scenarios of the crossover derivation          *)
(***************************************************************************)
\* The power domain yields what it counted, every OPP is complete and in the
\* voltage range, and the APM threshold is given: the parameters are
\* generated.
WellFormedPlatform ==
    /\ platform.genpd = "ok"
    /\ platform.osm_rsrc
    /\ platform.gpd_opp_cnt = Len(platform.opps)
    /\ Len(platform.opps) >= 2
    /\ platform.apm_uV > 0
    /\ \A i \in 1..Len(platform.opps) :
          /\ platform.opps[i].np
          /\ platform.opps[i].override >= 0
          /\ platform.opps[i].uV \div 1000 >= MIN_MILLIVOLTS
          /\ platform.opps[i].uV \div 1000 <= MAX_MILLIVOLTS

\* Five operating points at 300/600/900/1200/1500 MHz and
\* 500/600/700/800/900 mV, APM threshold 750 mV.
ScenarioTable ==
    /\ WellFormedPlatform
    /\ Len(platform.opps) = 5
    /\ \A i \in 1..5 : /\ platform.opps[i].rate = 300000 * i
                       /\ platform.opps[i].uV = 400000 + 100000 * i
    /\ platform.apm_uV = 750000

\* The index of the first corner whose voltage is at or above the threshold;
\* -1 if there is none.
FirstCornerAtOrAbove(threshold_uV) ==
    LET at == {i \in 0..(Len(platform.opps) - 1) :
                  platform.opps[i + 1].uV >= threshold_uV}
    IN  IF at = {} THEN -1 ELSE SetMin(at)

\* Corner 0 carries the spare value 1.
FirstSpareIsOne == platform.opps[1].spare = 1

\* The number of corners whose spare value is above that of the corner
\* before.
SpareTransitions ==
    Cardinality({i \in 2..Len(platform.opps) :
                    platform.opps[i].spare > platform.opps[i - 1].spare})

\* qcom_cpufreq_hw_write_lut returned 0, or the error of a firmware call
\* that failed.
ProgrammingNotRefused ==
    \/ wl.ret = 0
    \/ /\ wl.ret = -EIO
       /\ wlog[Len(wlog)].op = "scm"
       /\ wlog[Len(wlog)].ret = -EIO

\* A firmware call or an ACD transfer of the run so far returned an error.
TransferFailed == \E k \in 1..Len(wlog) : wlog[k].ret # 0

\* qcom_cpufreq_hw_osm_setup has returned.
OsmSetupReturned ==
    wl.ran /\ init_pc \notin {"sequencer", "setup_regs", "acd_init", "enable"}

\* Every step of qcom_cpufreq_hw_osm_setup has run and it returned 0: the
\* table and the sequencer are programmed, every setup register is written,
\* the ACD initialization returned 0 and the enable bit is written, last of
\* all writes.
OsmSetupSucceeded ==
    /\ wl.ret = 0
    /\ acd_ret = 0
    /\ \A reg \in SetupRegNames :
          \E j \in 1..Len(wlog) : wlog[j].op = "writel" /\ wlog[j].reg = reg
    /\ EnableWrites # {}
    /\ \A k \in EnableWrites :
          /\ wlog[k].val = 1
          /\ \A j \in 1..Len(wlog) : IsWrite(wlog[j]) => j <= k

\* Bring-up succeeds, as an end-to-end scenario has it: a run of
\* qcom_cpufreq_hw_osm_setup whose firmware calls and ACD transfers all
\* completed has succeeded once it has returned.
BringupSucceeds == (OsmSetupReturned /\ ~TransferFailed) => OsmSetupSucceeded

\* C11 as stated: with no MEM-ACC threshold, the scenario table gives the APM
\* index 3, the MEM-ACC candidate stays "not required" and bring-up
\* succeeds, whatever the spare values are. The code refuses a table with
\* fewer than two spare-value transitions also when no MEM-ACC threshold is
\* given.
C11_ScenarioASucceeds ==
    (wl.ran /\ ScenarioTable /\ platform.acc_uV <= 0) =>
        /\ wl.apm_vc = 3
        /\ wl.acc_vc = U8_MAX
        /\ BringupSucceeds

\* C11 amended: with no MEM-ACC threshold, on every well-formed table the APM
\* index is that of the first corner at or above the APM threshold (3 on the
\* scenario table) and the MEM-ACC candidate stays "not required"; bring-up
\* succeeds if corner 0 carries spare value 1 and the table has at least two
\* spare-value transitions.
C11_ApmCrossoverIsFirstCorner ==
    (wl.ran /\ WellFormedPlatform /\ platform.acc_uV <= 0) =>
        /\ wl.apm_vc = FirstCornerAtOrAbove(platform.apm_uV)
        /\ wl.acc_vc = U8_MAX
        /\ ScenarioTable => wl.apm_vc = 3
        /\ (FirstSpareIsOne /\ SpareTransitions >= 2) => BringupSucceeds

\* The scenario table with two spare-value transitions: bring-up has run
\* through and the domain is enabled.
C11_Witness ==
    /\ ScenarioTable
    /\ platform.acc_uV <= 0
    /\ FirstSpareIsOne
    /\ SpareTransitions = 2
    /\ wl.apm_vc = 3
    /\ wl.acc_vc = U8_MAX
    /\ OsmSetupReturned
    /\ ~TransferFailed
    /\ OsmSetupSucceeded
    /\ init_pc = "check_enabled"
    /\ enable_reg = 1

\* The scenario table with a MEM-ACC threshold of 650 mV.
ScenarioB ==
    /\ ScenarioTable
    /\ platform.acc_uV = 650000

\* Bring-up failed in the crossover derivation: qcom_cpufreq_hw_write_lut
\* returned -EINVAL after the LUT rows, no firmware call was made, the
\* domain is not enabled and initialization returned that error.
CrossoverDerivationFailed ==
    /\ wl.ret = -EINVAL
    /\ Len(wlog) = 5 * LUT_MAX_ENTRIES
    /\ \A k \in 1..Len(wlog) : wlog[k].op = "writel" /\ wlog[k].reg # "reg_enable"
    /\ enable_reg = 0
    /\ init_pc = "failed"
    /\ init_ret = -EINVAL

\* C12 as stated: the scenario table with a MEM-ACC threshold of 650 mV and
\* 0, 1 or 2 spare-value transitions fails in the crossover derivation. The
\* code accepts two transitions: they give the two pairs it requires.
C12_FewerThanThreeTransitionsFail ==
    (wl.ran /\ ScenarioB /\ FirstSpareIsOne /\ SpareTransitions < 3) =>
        CrossoverDerivationFailed

\* C12 amended: the scenario table with a MEM-ACC threshold of 650 mV fails
\* in the crossover derivation whenever it has fewer than 2 spare-value
\* transitions (0 or 1), and is not refused when it has 2 or more.
C12_FewerThanTwoTransitionsFail ==
    (wl.ran /\ ScenarioB /\ FirstSpareIsOne) =>
        /\ SpareTransitions < 2 => CrossoverDerivationFailed
        /\ SpareTransitions >= 2 => ProgrammingNotRefused

\* The scenario table with one spare-value transition was refused after the
\* LUT rows were written.
C12_Witness ==
    /\ ScenarioB
    /\ FirstSpareIsOne
    /\ SpareTransitions = 1
    /\ wl.ran
    /\ CrossoverDerivationFailed

(***************************************************************************)
(* Claims on the published throttle frequency                              *)
(***************************************************************************)
\* The frequency freq (kHz) resolved against the operating-point table:
\* the highest rate at or below it, the lowest rate if it lies below all of
\* them, itself if there is nothing to resolve against.
VoteResolvedByFloor(opps, freq) ==
    LET below == {r \in opps.rates : r <= freq}
    IN  IF opps.rates = {} THEN freq
        ELSE IF below # {} THEN SetMax(below)
        ELSE SetMin(opps.rates)

\* C13: a poll iteration publishes as thermal pressure the vote it read,
\* converted to a frequency and resolved against the operating-point table
\* by floor match, or by ceil match if it is below the table. The code
\* violates it: the conversion to Hz is an unsigned 32-bit product, so a vote
\* of 224 or more (4300800 kHz) wraps and is resolved from the wrapped value.
C13_PublishesFloorResolvedVote ==
    [][(poll_pc = "publish" /\ poll_pc' = "lock") =>
          thermal_pressure' = VoteResolvedByFloor(opp_table, poll_freq')]_vars

(***************************************************************************)
(* Claims on the operating-point table reader                              *)
(***************************************************************************)
\* qcom_cpufreq_gen_params was called and got as far as counting the OPPs.
ReaderCountedOpps ==
    /\ wl.ran
    /\ platform.osm_rsrc
    /\ platform.genpd = "ok"

\* The three cases of invalid data: a voltage outside [150, 1400] mV, an
\* advertised count of 0 or 1, fewer entries than the advertised count.
VoltageOutOfRange ==
    \E i \in 1..Len(platform.opps) :
        \/ platform.opps[i].uV \div 1000 < MIN_MILLIVOLTS
        \/ platform.opps[i].uV \div 1000 > MAX_MILLIVOLTS
FewerThanTwoAdvertised == platform.gpd_opp_cnt \in {0, 1}
FewerThanAdvertised == Len(platform.opps) < platform.gpd_opp_cnt

\* C14: in each of the three cases the reader returns -EINVAL, never
\* success. The code violates it: an advertised count of 0 makes
\* qcom_cpufreq_gen_params return that count, which is 0, i.e. success with
\* no entries.
C14_ReaderRejectsInvalidData ==
    (ReaderCountedOpps
        /\ (VoltageOutOfRange \/ FewerThanTwoAdvertised \/ FewerThanAdvertised))
    => wl.gen_ret = -EINVAL

(***************************************************************************)
(* Claims on the failures of bring-up                                      *)
(***************************************************************************)
\* The firmware calls that returned an error.
FailedScm ==
    {k \in 1..Len(wlog) : wlog[k].op = "scm" /\ wlog[k].ret # 0}

\* C15: when a firmware call of the table programming returns non-zero, it is
\* the last access made: no firmware call and no register write follows,
\* qcom_cpufreq_hw_write_lut and initialization return that error, and the
\* enable bit is not written.
C15_FirmwareFailureAborts ==
    FailedScm # {} =>
        /\ FailedScm = {Len(wlog)}
        /\ wl.ret = wlog[Len(wlog)].ret
        /\ init_pc = "failed"
        /\ init_ret = wl.ret
        /\ enable_reg = 0
        /\ EnableWrites = {}

\* A firmware call failed after the four MEM-ACC indices were written.
C15_Witness ==
    /\ FailedScm # {}
    /\ wlog[Len(wlog)].idx = SEQUENCER_REG(SEQ_MEM_ACC_LVAL)
    /\ \A k \in 0..(SEQ_MEM_ACC_MAX_LEVELS - 1) : ScmVals(SEQ_MEMACC_REG(k)) # {}
    /\ init_pc = "failed"

\* The polls of ACD transfers that timed out.
TimedOutPolls ==
    {k \in 1..Len(wlog) : wlog[k].op = "poll" /\ wlog[k].ret # 0}

\* C16: when the poll of an ACD transfer times out, it is the last access
\* made: no later step of the ACD sequence is performed, ACD initialization
\* and domain initialization return the timeout error, and the enable bit is
\* not written.
C16_AcdTimeoutAborts ==
    TimedOutPolls # {} =>
        /\ TimedOutPolls = {Len(wlog)}
        /\ acd_ret = -ETIMEDOUT
        /\ wlog[Len(wlog)].ret = -ETIMEDOUT
        /\ init_pc = "failed"
        /\ init_ret = -ETIMEDOUT
        /\ enable_reg = 0
        /\ EnableWrites = {}

\* The third poll of the ACD sequence timed out.
C16_Witness ==
    /\ TimedOutPolls # {}
    /\ Cardinality({k \in 1..Len(wlog) : wlog[k].op = "poll"}) = 3
    /\ init_pc = "failed"

\* The registers of the ACD block
AcdRegNames ==
    {"acd", "acd_auto_xfer_ctl", "acd_auto_xfer_cfg", "acd_auto_xfer",
     "acd_auto_xfer_sts", "acd_write_ctl", "acd_write_sts"}

\* C17: on a domain without ACD block no register of the ACD block is
\* accessed, ACD initialization returns 0, and the last write of the setup
\* sequence is followed by nothing but the write of the enable bit.
C17_AbsentAcdIsSkipped ==
    ~platform.acd_rsrc =>
        /\ \A k \in 1..Len(wlog) : wlog[k].reg \notin AcdRegNames
        /\ acd_ret = 0
        /\ \A k \in 1..Len(wlog) :
              (wlog[k].op = "writel" /\ wlog[k].reg = "reg_pll_override") =>
                  IF k = Len(wlog) THEN init_pc \in {"acd_init", "enable"}
                  ELSE wlog[k + 1] = Writel("reg_enable", 0, 1)

\* A domain without ACD block was brought up and enabled.
C17_Witness ==
    /\ ~platform.acd_rsrc
    /\ NeedsOsmSetup(platform.soc)
    /\ EnableWrites # {}
    /\ init_pc = "done"

\* The reads of the enable register that found bit 0 clear.
EnableReadClear ==
    {k \in 1..Len(wlog) : /\ wlog[k].op = "readl"
                          /\ wlog[k].reg = "reg_enable"
                          /\ wlog[k].val % 2 = 0}

\* C18: when the enable register is read with bit 0 clear, after bring-up or
\* on firmware-configured hardware, initialization fails with -ENODEV; the
\* LUT is not read and the frequency table not built, the throttle interrupt
\* is not claimed, and the domain's data, mapping and region are released.
C18_NotEnabledFailsInit ==
    EnableReadClear # {} =>
        /\ EnableReadClear = {Len(wlog)}
        /\ init_pc = "failed"
        /\ init_ret = -ENODEV
        /\ freq_table = [i \in 0..LUT_MAX_ENTRIES |-> 0]
        /\ ~opp_table.present
        /\ ~irq_requested
        /\ throttle_irq = 0
        /\ exit_pc = "uninit"
        /\ resources = NoResources

\* Bring-up wrote the enable bit, and the register was read back with bit 0
\* clear.
C18_Witness ==
    /\ EnableWrites # {}
    /\ EnableReadClear # {}
    /\ init_pc = "failed"
    /\ resources = NoResources

(***************************************************************************)
(* Claims on runtime control                                               *)
(***************************************************************************)
\* C19: when qcom_cpufreq_hw_target_index has returned, the performance
\* state register holds the index it was called with and it returned 0,
\* with bandwidth scaling enabled or not, whatever the bandwidth vote
\* returned; without bandwidth scaling no vote is requested.
C19_SetIndexAlwaysSucceeds ==
    run_op = "set" =>
        /\ perf_state = last_index
        /\ set_ret = 0
        /\ icc_scaling_enabled => bw_vote.called
        /\ ~icc_scaling_enabled => bw_vote = NoBwVote

\* A frequency change whose bandwidth vote failed.
C19_Witness ==
    /\ run_op = "set"
    /\ icc_scaling_enabled
    /\ bw_vote.called
    /\ bw_vote.ret # 0
    /\ last_index > 0
    /\ perf_state = last_index
    /\ set_ret = 0

\* C20: when qcom_cpufreq_hw_get has returned, the row it took the frequency
\* from lies below the entry count of the frequency table, whatever the
\* performance state register holds. The code violates it: the index is
\* clamped to the LUT depth, not to the entry count, so a register value at
\* or above the entry count selects the end marker or a slot past it.
C20_GetStaysInsideTable ==
    run_op = "get" =>
        /\ qcom_cpufreq_hw_get_index(perf_state) < EntryCount(freq_table)
        /\ get_ret = freq_table[qcom_cpufreq_hw_get_index(perf_state)]
        /\ get_ret # CPUFREQ_TABLE_END

(***************************************************************************)
(* Two frequency domains: one in operation, another being initialized      *)
(***************************************************************************)
\* Lines 1004-1022 run by qcom_cpufreq_hw_cpu_init of ANOTHER policy while
\* this domain is in operation. dt is what dev_pm_opp_of_add_table finds
\* for that policy's CPU device. The other domain has its own base, table
\* and driver data; icc_scaling_enabled is the file-scope variable of line
\* 280, the same one this domain's qcom_cpufreq_hw_target_index tests.
OtherDomainReadLut(dt) ==
    /\ LET r == qcom_cpufreq_hw_read_lut("qcom", ThrottleLut, dt, {})
       IN  icc_scaling_enabled' = IF r.ret = 0 THEN r.icc ELSE icc_scaling_enabled
    /\ UNCHANGED <<platform, init_pc, init_ret, wlog, lut_regs, enable_reg, wl,
                   acd_ret, resources, throttle_vars, runtime_vars>>

\* This domain: firmware-configured, with a table of at most five rows.
InitDomains ==
    /\ InitRuntime
    /\ platform.soc = "qcom"
    /\ EntryCount(freq_table) <= 5

NextDomains ==
    \/ \E i \in 0..(EntryCount(freq_table) - 1),
          bw_ret \in IF icc_scaling_enabled THEN BwVoteResults ELSE {0} :
           SetIndex(i, bw_ret)
    \/ \E i \in 0..(EntryCount(freq_table) - 1) : FastPath(i)
    \/ GetCurrent
    \/ \E dt \in {"table", "none", "invalid"} : OtherDomainReadLut(dt)

SpecDomains == InitDomains /\ [][NextDomains]_vars

\* Line 364: whether qcom_cpufreq_hw_target_index of this domain requests a
\* bandwidth vote.
SetIndexRequestsVote == icc_scaling_enabled

\* C21: initializing another domain changes neither the registers and the
\* frequency table of this domain nor whether this domain's SetIndex
\* requests a bandwidth vote. The code violates the last part: the other
\* domain's qcom_cpufreq_hw_read_lut assigns the file-scope
\* icc_scaling_enabled that this domain's SetIndex tests.
C21_OtherDomainInitLeavesDomainAlone ==
    [][(\E dt \in {"table", "none", "invalid"} : OtherDomainReadLut(dt)) =>
          /\ SetIndexRequestsVote' = SetIndexRequestsVote
          /\ UNCHANGED <<perf_state, freq_table, lut_regs, enable_reg>>]_vars

\* The part of C21 the code keeps: the registers and the frequency table of
\* this domain are untouched by the other domain's initialization.
C21_OtherDomainInitLeavesRegisters ==
    [][(\E dt \in {"table", "none", "invalid"} : OtherDomainReadLut(dt)) =>
          UNCHANGED <<perf_state, freq_table, lut_regs, enable_reg>>]_vars

(***************************************************************************)
(* C22: a poll whose lookup in the operating-point table fails             *)
(***************************************************************************)
\* The lookups of lines 1146-1148 of the running iteration failed (there was
\* no CPU device, or no operating-point table, or no entry in it): freq_hz
\* is what line 1144 computed.
ResolutionFails == poll_freq_hz < 0

\* An iteration begins: lines 1130-1144.
PollReadsVote == poll_pc = "idle" /\ poll_pc' = "floor"

\* The steps of one poll iteration: lines 1150-1153, and lines 1159-1171.
PollPublishes == poll_pc = "publish" /\ poll_pc' = "lock"
PollDecides == poll_pc = "decide" /\ poll_pc' = "unlock"

\* The highest frequency of the domain's table: a capped frequency at or
\* above it is no thermal pressure.
ThrottleMaxKhz == ThrottleKhz(ThrottleEntries - 1)

\* The decision of an iteration: nothing if cancelled, else the interrupt is
\* re-enabled or one poll is scheduled 10 ms later.
NormalDecision ==
    IF cancel_throttle THEN UNCHANGED <<irq_depth, work_timer>>
    ELSE BackToIrqArmed \/ StaysPolling

\* C22 as stated: a poll whose resolution fails reports zero pressure (the
\* frequency it hands to arch_update_thermal_pressure is zero, or is no cap
\* at all), and takes its normal decision. The code hands over the
\* unresolved vote frequency instead.
C22_FailedResolutionReportsZero ==
    [][ResolutionFails =>
          /\ PollPublishes =>
                (thermal_pressure' = 0 \/ thermal_pressure' >= ThrottleMaxKhz)
          /\ PollDecides => NormalDecision]_vars

\* C22 amended: a poll whose resolution fails does not abort; it reports the
\* vote frequency it read, unresolved (the 32-bit Hz product of line 1144
\* divided by 1000), and takes its normal decision.
C22_FailedResolutionReportsVote ==
    [][/\ PollReadsVote => poll_freq' = qcom_lmh_get_throttle_freq(current_vote)
       /\ ResolutionFails =>
             /\ PollPublishes =>
                   /\ poll_freq' = poll_freq
                   /\ throttled_freq' = FreqHzFloorKhz(poll_freq)
                   /\ thermal_pressure' = throttled_freq'
             /\ PollDecides => NormalDecision]_vars

\* C22 witness: while qcom_cpufreq_hw_cpu_exit runs, a poll whose lookup
\* failed has reported the vote frequency it read, which is no rate the
\* table ever held and is below the table's maximum, and has re-enabled the
\* interrupt.
C22_Witness ==
    /\ ResolutionFails
    /\ irq_requested
    /\ poll_pc = "unlock"
    /\ ~cancel_throttle
    /\ throttled_freq = poll_freq
    /\ throttled_freq \notin ThrottleOpps
    /\ thermal_pressure = throttled_freq
    /\ thermal_pressure > 0
    /\ thermal_pressure < ThrottleMaxKhz
    /\ irq_depth = 0
    /\ work_timer = -1

(***************************************************************************)
(* C23: the interrupt handler                                              *)
(***************************************************************************)
\* The two statements of qcom_lmh_dcvs_handle_irq as steps
HandlerDisables == irq_pc = "idle" /\ irq_pc' = "schedule"
HandlerSchedules == irq_pc = "schedule" /\ irq_pc' = "idle"

\* The notifier's states: the line is claimed and enabled and no poll is
\* scheduled; the line is disabled and a poll is scheduled or running.
IrqArmed == irq_requested /\ irq_depth = 0 /\ work_timer = -1
Polling == irq_depth = 1 /\ (work_timer >= 0 \/ poll_pc # "idle")

\* What the handler leaves alone: the lock, the cancellation flag, the
\* registers, and everything a poll iteration computes.
HandlerFrame ==
    UNCHANGED <<throttle_lock, cancel_throttle, current_vote, perf_state,
                poll_pc, poll_freq, poll_dev,
                poll_freq_hz, throttled_freq, thermal_pressure,
                irq_requested, throttle_irq, freq_table>>

\* C23: the handler runs only while IrqArmed; it disables the interrupt line
\* and then schedules a poll with zero delay, touching nothing else; unless
\* teardown has moved the notifier to Cancelled meanwhile, the notifier is
\* in Polling afterwards with the poll due at once.
C23_HandlerDisablesAndSchedules ==
    [][/\ HandlerDisables =>
             /\ IrqArmed
             /\ irq_depth' = 1
             /\ work_timer' = work_timer
             /\ HandlerFrame
       /\ HandlerSchedules =>
             /\ irq_depth' = irq_depth
             /\ HandlerFrame
             /\ ~cancel_throttle => (work_timer' = 0 /\ Polling')]_vars

\* C23 witness: the first interrupt has been handled: the line is disabled,
\* the poll is due with zero delay, no poll has run yet and no lock is held.
C23_Witness ==
    /\ irq_pc = "idle"
    /\ irq_depth = 1
    /\ work_timer = 0
    /\ poll_pc = "idle"
    /\ poll_freq = 0
    /\ thermal_pressure = 0
    /\ throttle_lock = "free"
    /\ ~cancel_throttle

(***************************************************************************)
(* C24: Cancelled is terminal for the poll path                            *)
(***************************************************************************)
\* A step of the poll worker (qcom_lmh_dcvs_poll / qcom_lmh_dcvs_notify)
PollWorkerStep == poll_pc' # poll_pc

\* C24: once teardown has set the cancellation flag (it does so holding the
\* throttle lock), the flag stays set, and no step of a poll iteration
\* re-enables the interrupt line or schedules a poll, whatever vote was read:
\* the only thing the worker does to the work is take it off the queue.
C24_CancelledIsTerminal ==
    [][cancel_throttle =>
          /\ cancel_throttle'
          /\ PollWorkerStep =>
                /\ irq_depth' = irq_depth
                /\ work_timer' = work_timer \/ (work_timer = 0 /\ work_timer' = -1)]_vars

\* C24, the setting of the flag: teardown sets it only while it holds the
\* lock, so no poll iteration is between its test of the flag and its
\* decision at that moment.
C24_FlagSetUnderLock ==
    [][(~cancel_throttle /\ cancel_throttle') =>
          (throttle_lock = "exit" /\ poll_pc \notin {"decide", "unlock"})]_vars

\* C24 witness: a poll iteration has taken its decision after cancellation
\* with a throttled frequency that would otherwise re-enable the interrupt:
\* the line is still disabled and no poll is scheduled.
C24_Witness ==
    /\ cancel_throttle
    /\ poll_pc = "unlock"
    /\ throttled_freq >= RequestedKhz
    /\ irq_depth = 1
    /\ work_timer = -1

(***************************************************************************)
(* C25: the notifier without teardown, with a fairly scheduled poll worker *)
(***************************************************************************)
NextPolling ==
    \/ \E irq \in {-ENXIO, -EINVAL, 37}, claimed \in BOOLEAN : LmhInit(irq, claimed)
    \/ CpuInitReturn
    \/ PolicyRegister
    \/ \E v \in VoteVals : HwVote(v)
    \/ \E i \in 0..(ThrottleEntries - 1) : ThrottleSetIndex(i)
    \/ IrqDisable
    \/ IrqSchedule
    \/ TimerExpire
    \/ PollBegin
    \/ PollFloor
    \/ PollCeil
    \/ PollPublish
    \/ PollLock
    \/ PollDecide
    \/ PollUnlock

\* The handler thread and the poll worker (system_highpri_wq) get to run,
\* and the delay of a scheduled poll elapses.
PollFairness ==
    /\ WF_vars(IrqSchedule)
    /\ WF_vars(TimerExpire)
    /\ WF_vars(PollBegin)
    /\ WF_vars(PollFloor)
    /\ WF_vars(PollCeil)
    /\ WF_vars(PollPublish)
    /\ WF_vars(PollLock)
    /\ WF_vars(PollDecide)
    /\ WF_vars(PollUnlock)

SpecPolling == InitThrottle /\ [][NextPolling]_vars /\ PollFairness

\* A poll iteration is about to decide on a vote it read that is below the
\* last requested frequency.
DecidesOnVoteBelowRequest ==
    /\ poll_pc = "decide"
    /\ \E f \in {poll_freq}, i \in {perf_state} : f < ThrottleKhz(i)

\* The line is enabled again and no poll is scheduled or running.
BackInIrqArmed == irq_depth = 0 /\ work_timer = -1

\* C25: without teardown and with a fair poll worker, a notifier in Polling
\* eventually is in IrqArmed again unless an iteration decides on a vote
\* read below the last requested frequency (so it is, if from some point on
\* every vote read is at or above the request); and an iteration re-arms
\* the poll only if the vote it read is below the last requested frequency.
\* The code violates both for votes whose Hz product wraps (see C13).
C25_PollingEndsWhenVoteRecovers ==
    /\ Polling ~> (BackInIrqArmed \/ DecidesOnVoteBelowRequest)
    /\ [][(UncancelledDecision /\ work_timer' = POLL_DELAY_MS) =>
             poll_freq < RequestedKhz]_vars

\* The liveness half of C25 alone.
C25_EventuallyIrqArmed == Polling ~> (BackInIrqArmed \/ DecidesOnVoteBelowRequest)

\* The safety half of C25 alone.
C25_PollsOnlyWhileVoteBelow ==
    [][(UncancelledDecision /\ work_timer' = POLL_DELAY_MS) =>
          poll_freq < RequestedKhz]_vars

(***************************************************************************)
(* C26: the disable depth of the interrupt line                            *)
(***************************************************************************)
\* A poll is queued to run at once or waits for its 10 ms delay.
PollPending == work_timer >= 0

\* C26, state part: the disable depth of the interrupt line is 0 or 1, and
\* the line is never enabled while a poll is pending or waiting for its
\* delay.
C26_DepthInvariant ==
    /\ irq_depth \in {0, 1}
    /\ PollPending => irq_depth = 1

\* C26: the state part in every reachable state, and every enable_irq of
\* the poll worker undoes exactly one disable of the handler: the depth goes
\* from 1 to 0, never below.
C26_DepthIsBalanced ==
    /\ []C26_DepthInvariant
    /\ [][(PollDecides /\ irq_depth' # irq_depth) =>
             (irq_depth = 1 /\ irq_depth' = 0)]_vars
    /\ [][(HandlerDisables /\ irq_depth' # irq_depth) =>
             (irq_depth = 0 /\ irq_depth' = 1)]_vars

\* C26 witness: a poll has re-enabled the line after an interrupt disabled
\* it: the depth is back at 0 and nothing is pending.
C26_Witness ==
    /\ poll_pc = "unlock"
    /\ ~cancel_throttle
    /\ irq_depth = 0
    /\ work_timer = -1
    /\ irq_pc = "idle"

(***************************************************************************)
(* C27: what teardown touches                                              *)
(***************************************************************************)
\* qcom_cpufreq_hw_lmh_exit is past its first test: it holds or has held the
\* lock, is cancelling the work or is about to release the line.
TeardownTouchesThrottle ==
    exit_pc \in {"locked", "cancel_work", "flush_work", "free_irq"}

\* C27: teardown takes the lock, cancels the work and releases the line only
\* if initialization claimed the line; otherwise it touches nothing and
\* releases no line. The code violates it when request_threaded_irq failed:
\* throttle_irq keeps the line's number and teardown goes through all of it,
\* calling free_irq on a line that was never claimed.
C27_TeardownOnlyIfClaimed ==
    /\ TeardownTouchesThrottle => irq_requested
    /\ ~free_unclaimed

\* The part of C27 the code keeps: with no interrupt line at all, teardown
\* touches nothing and releases nothing.
C27_NoLineNoTeardown ==
    throttle_irq = -ENXIO => (~TeardownTouchesThrottle /\ ~free_unclaimed)

(***************************************************************************)
(* Crossover derivation on every sequence of spare values                  *)
(***************************************************************************)
\* Well-formed tables of 2..MaxOpps corners whose spare values ("qcom,spare-
\* data", any u32 of the device tree) are every sequence over 0..3, rising
\* or not.
CrossoverPlatforms ==
    UNION {{Platform("msm8998", "ok", n, GenpdOpps(n, 500000, sp, "none"),
                     750000, 0) : sp \in [1..n -> 0..3]} :
           n \in 2..MaxOpps}

\* qcom_cpufreq_hw_cpu_init has mapped the domain and is about to call
\* qcom_cpufreq_hw_osm_setup.
InitCrossover ==
    /\ ThrottleIdle
    /\ platform \in CrossoverPlatforms
    /\ init_pc = "write_lut"
    /\ init_ret = 0
    /\ wlog = <<>>
    /\ lut_regs = BlankLut
    /\ enable_reg = 0
    /\ wl = NoWriteLut
    /\ acd_ret = 0
    /\ icc_scaling_enabled = FALSE
    /\ resources = MappedResources
    /\ perf_state = 0
    /\ freq_table = [i \in 0..LUT_MAX_ENTRIES |-> 0]
    /\ run_op = "none"
    /\ last_write = "none"
    /\ last_index = 0
    /\ get_ret = 0
    /\ set_ret = 0
    /\ bw_vote = NoBwVote

NextCrossover == OsmWriteLut

SpecCrossover == InitCrossover /\ [][NextCrossover]_vars

\* The crossover derivation ran: the reader succeeded with two rows or more.
DerivationRan == wl.ran /\ wl.gen_ret = 0 /\ wl.num_entries >= 2

\* The spare value written to LUT slot i, padding slots included.
SlotSpare(i) == lut_regs[i].spare_val

\* The slots from slot `from` on whose spare value is above `level`.
SlotsAbove(from, level) ==
    {i \in from..(LUT_MAX_ENTRIES - 1) : SlotSpare(i) > level}

\* The pairs the claim describes: (i-1, i) at the first slot whose spare
\* value is above 1, then at the first later slot whose spare value is above
\* that slot's; no third pair.
ExpectedPairs ==
    IF SlotsAbove(0, 1) = {} THEN <<>>
    ELSE LET r1 == SetMin(SlotsAbove(0, 1))
         IN  IF SlotsAbove(r1 + 1, SlotSpare(r1)) = {} THEN <<r1 - 1, r1>>
             ELSE LET r2 == SetMin(SlotsAbove(r1 + 1, SlotSpare(r1)))
                  IN  <<r1 - 1, r1, r2 - 1, r2>>

AdjustedAccVc == wl.acc_vc - 1

\* The two registers of the upper pair each received exactly lo and hi.
UpperPairWritten(lo, hi) ==
    /\ ScmVals(SEQ_MEMACC_REG(2)) = {lo}
    /\ ScmVals(SEQ_MEMACC_REG(3)) = {hi}

\* The programming succeeded with a valid customized candidate.
CustomCornerApplied == WriteLutSucceeded /\ wl.custom

\* C29 as stated: the upper pair is overwritten with (adjusted-1, adjusted)
\* exactly when the adjusted corner is below the low bound (the first value)
\* of the upper pair derived from the spare values, else it is left as
\* derived. The code compares with the pair's second value.
C29_OverwrittenBelowLowBound ==
    CustomCornerApplied =>
        IF AdjustedAccVc < wl.acc_std[3]
        THEN UpperPairWritten(AdjustedAccVc - 1, AdjustedAccVc)
        ELSE UpperPairWritten(wl.acc_std[3], wl.acc_std[4])

\* C29 amended: the upper pair is overwritten with (adjusted-1, adjusted)
\* exactly when the adjusted corner is below the high bound (the second
\* value) of the upper pair derived from the spare values, which includes
\* the adjusted corner being equal to the low bound; else it is left as
\* derived.
C29_OverwrittenBelowHighBound ==
    CustomCornerApplied =>
        IF AdjustedAccVc < wl.acc_std[4]
        THEN UpperPairWritten(AdjustedAccVc - 1, AdjustedAccVc)
        ELSE UpperPairWritten(wl.acc_std[3], wl.acc_std[4])

\* C29 witness: the adjusted corner equals the low bound of the derived upper
\* pair, and the pair written is one corner lower than the derived one.
C29_Witness ==
    /\ CustomCornerApplied
    /\ AdjustedAccVc = wl.acc_std[3]
    /\ UpperPairWritten(AdjustedAccVc - 1, AdjustedAccVc)
    /\ ~UpperPairWritten(wl.acc_std[3], wl.acc_std[4])

\* C29, the other two cases reached: strictly below the low bound, and at or
\* above the high bound.
C29_WitnessBelow ==
    CustomCornerApplied /\ AdjustedAccVc < wl.acc_std[3]
C29_WitnessAbove ==
    CustomCornerApplied /\ AdjustedAccVc >= wl.acc_std[4]

(***************************************************************************)
(* C30: the reader's MEM-ACC candidate                                     *)
(***************************************************************************)
\* qcom_cpufreq_gen_params was called and returned 0.
ReaderSucceeded == wl.ran /\ platform.osm_rsrc /\ wl.gen_ret = 0

\* The optional MEM-ACC threshold is supplied (line 510).
AccThresholdSupplied == platform.acc_uV > 0

\* The first corner whose voltage reaches the MEM-ACC threshold; -1 if none.
FirstAccCorner == FirstCornerAtOrAbove(platform.acc_uV)

\* C30 as stated: the candidate is the "unset" sentinel only when the
\* threshold is absent or no corner reaches it; otherwise it is the index of
\* the first corner that reaches it, indices 0, 1 and 2 included. The code
\* also falls back to the sentinel for the indices 0, 1 and 2.
C30_CandidateIsFirstCorner ==
    ReaderSucceeded =>
        wl.acc_vc = IF ~AccThresholdSupplied \/ FirstAccCorner = -1
                    THEN U8_MAX ELSE FirstAccCorner

\* C30 amended: the candidate is the "unset" sentinel when the threshold is
\* absent, when no corner reaches it, or when the first corner that reaches
\* it has an index below 3; otherwise it is the index of that first corner.
C30_CandidateIsFirstCornerFromThree ==
    ReaderSucceeded =>
        wl.acc_vc = IF ~AccThresholdSupplied
                       \/ FirstAccCorner < SEQ_MEM_ACC_MAX_LEVELS - 1
                    THEN U8_MAX ELSE FirstAccCorner

\* C30 witness: the threshold is supplied and first reached at corner 2, and
\* the reader returned the sentinel.
C30_Witness ==
    /\ ReaderSucceeded
    /\ AccThresholdSupplied
    /\ FirstAccCorner = 2
    /\ wl.acc_vc = U8_MAX

\* C30, the other case reached: the threshold is first reached at corner 3
\* or higher and the reader returned that corner.
C30_WitnessFound ==
    /\ ReaderSucceeded
    /\ AccThresholdSupplied
    /\ FirstAccCorner >= 3
    /\ wl.acc_vc = FirstAccCorner

(***************************************************************************)
(* C31: what has been written when the crossover derivation fails          *)
(***************************************************************************)
\* Bring-up failed at the test of the derived pairs (line 880): the reader
\* succeeded with two rows or more, fewer than two pairs were derived, and
\* qcom_cpufreq_hw_write_lut and initialization returned -EINVAL.
FailedAtPairTest ==
    /\ DerivationRan
    /\ Len(wl.acc_std) < SEQ_MEM_ACC_MAX_LEVELS
    /\ wl.ret = -EINVAL
    /\ init_pc = "failed"
    /\ init_ret = -EINVAL

\* The five registers of a LUT row
LutRowRegs == {"index", "volt_lut", "freq_lut", "override", "spare"}

\* The accesses made to register reg of LUT slot i
RowWrites(reg, i) ==
    {k \in 1..Len(wlog) : wlog[k].reg = reg /\ wlog[k].idx = i}

\* C31 as stated: in a bring-up that fails in the crossover derivation no
\* LUT row register has been written. The code derives the pairs inside the
\* loop that writes the rows and tests their number after the loop.
C31_NoRowWrittenOnDerivationFailure ==
    FailedAtPairTest =>
        /\ \A k \in 1..Len(wlog) : wlog[k].reg \notin LutRowRegs
        /\ lut_regs = BlankLut

\* C31 amended: in a bring-up that fails in the crossover derivation every
\* one of the 40 LUT rows has been written (each of its five registers
\* once), and nothing else: no firmware call was made, no sequencer or setup
\* register and no enable bit was written.
C31_AllRowsWrittenOnDerivationFailure ==
    FailedAtPairTest =>
        /\ \A i \in 0..(LUT_MAX_ENTRIES - 1) : \A reg \in LutRowRegs :
              Cardinality(RowWrites(reg, i)) = 1
        /\ \A k \in 1..Len(wlog) :
              wlog[k].op = "writel" /\ wlog[k].reg \in LutRowRegs
        /\ \A i \in 0..(LUT_MAX_ENTRIES - 1) :
              lut_regs[i] = LutEntry(wl.hw_tbl, wl.num_entries, i)
        /\ enable_reg = 0

\* C31 witness: a bring-up failed at the test of the pairs with one pair
\* derived, and the LUT holds the table's rows.
C31_Witness ==
    /\ FailedAtPairTest
    /\ Len(wl.acc_std) = 2
    /\ lut_regs # BlankLut
    /\ Len(wlog) = 5 * LUT_MAX_ENTRIES

(***************************************************************************)
(* The two ACD transfers with the polls read by read                       *)
(***************************************************************************)
ACD_WRITE_CTL_SELECT_SHIFT == 1

\* Bit b of the non-negative word w is set
BitSet(w, b) == (w \div (2 ^ b)) % 2 = 1

\* (a & b) != 0 on non-negative words
AndNonZero(a, b) == \E k \in 0..30 : BitSet(a, k) /\ BitSet(b, k)

\* The most reads one poll makes before it gives up
MaxPollReads == 3

\* readl_poll_timeout(addr, regval, regval & mask, 1, 3) as called at lines
\* 661 and 684: the register is read until a value read has a bit of mask
\* set, then the result is 0; once the time allowed has passed without such
\* a value the result is -ETIMEDOUT. reads: the values the register holds at
\* the successive reads the poll has time for.
readl_poll_timeout(reg, reads, mask) ==
    LET hits == {k \in 1..Len(reads) : AndNonZero(reads[k], mask)}
        n == IF hits = {} THEN Len(reads) ELSE SetMin(hits)
    IN  [ret |-> IF hits = {} THEN -ETIMEDOUT ELSE 0,
         log |-> [k \in 1..n |-> ReadAcc(reg, reads[k])]]

\* Mutant of qcom_cpufreq_hw_acd_write_autoxfer: the status register is
\* polled before the start bit is pulsed.
qcom_cpufreq_hw_acd_write_autoxfer_PollFirst(val, reads) ==
    LET p == readl_poll_timeout("acd_auto_xfer_sts", reads, 1)
    IN  [ret |-> p.ret,
         log |-> << Writel("acd_auto_xfer_cfg", 0, val) >> \o p.log
                 \o << Writel("acd_auto_xfer", 0, 0),
                       Writel("acd_auto_xfer", 0, 1) >>]

\* qcom_cpufreq_hw_acd_write_autoxfer, lines 647-663
qcom_cpufreq_hw_acd_write_autoxfer(val, reads) ==
    LET p == readl_poll_timeout("acd_auto_xfer_sts", reads, 1)
    IN  [ret |-> p.ret,
         log |-> << Writel("acd_auto_xfer_cfg", 0, val),
                    Writel("acd_auto_xfer", 0, 0),
                    Writel("acd_auto_xfer", 0, 1) >> \o p.log]

\* qcom_cpufreq_hw_acd_write_xfer, lines 665-686
qcom_cpufreq_hw_acd_write_xfer(reg, val, reads) ==
    LET p == readl_poll_timeout("acd_write_sts", reads,
                                qcom_cpufreq_acd_regbit(reg))
    IN  [ret |-> p.ret,
         log |-> << Writel("acd", reg, val),
                    Writel("acd_write_ctl", 0, 0),
                    Writel("acd_write_ctl", 0,
                           (reg \div 4) * (2 ^ ACD_WRITE_CTL_SELECT_SHIFT)
                               + ACD_WRITE_CTL_UPDATE_EN) >> \o p.log]

\* Values a status register may hold at a read: no bit, bit 0, and the bits
\* of the registers at offsets 48, 52 and 60
StatusValues == {0, 1, 4096, 8192, 32768}

\* What a status register holds at the reads of one poll
PollReads ==
    UNION {[1..n -> StatusValues] : n \in 2..MaxPollReads}

\* The bitmasks qcom_cpufreq_hw_acd_init hands to the auto-transfer
AutoxferMasks ==
    LET a == msm8998_acd_data
        rmask == Or32(Or32(qcom_cpufreq_acd_regbit(a.acd_ctrl_reg),
                           qcom_cpufreq_acd_regbit(a.tl_delay_reg)),
                      Or32(qcom_cpufreq_acd_regbit(a.softstart_reg),
                           qcom_cpufreq_acd_regbit(a.ext_intf_reg)))
    IN  {rmask, Or32(rmask, qcom_cpufreq_acd_regbit(a.gfmux_cfg_reg))}

\* The registers qcom_cpufreq_hw_acd_init transfers by hand, and the values
XferRegs ==
    {msm8998_acd_data.gfmux_cfg_reg, msm8998_acd_data.dcvs_sw_reg,
     msm8998_acd_data.ext_intf_reg}
XferVals == {0, 1, msm8998_acd_data.ext_intf1_val}

\* qcom_cpufreq_hw_osm_setup is about to call qcom_cpufreq_hw_acd_init on a
\* domain with an ACD block; wlog records the accesses to that block.
InitAcd ==
    /\ ThrottleIdle
    /\ platform = DefaultPlatform("msm8998")
    /\ init_pc = "acd_init"
    /\ init_ret = 0
    /\ wlog = <<>>
    /\ lut_regs = BlankLut
    /\ enable_reg = 0
    /\ wl = NoWriteLut
    /\ acd_ret = 0
    /\ icc_scaling_enabled = FALSE
    /\ resources = MappedResources
    /\ perf_state = 0
    /\ freq_table = [i \in 0..LUT_MAX_ENTRIES |-> 0]
    /\ run_op = "none"
    /\ last_write = "none"
    /\ last_index = 0
    /\ get_ret = 0
    /\ set_ret = 0
    /\ bw_vote = NoBwVote

\* One call of qcom_cpufreq_hw_acd_write_autoxfer
AcdAutoxfer(val, reads) ==
    /\ init_pc = "acd_init"
    /\ wlog = <<>>
    /\ LET r == qcom_cpufreq_hw_acd_write_autoxfer(val, reads)
       IN  /\ wlog' = r.log
           /\ acd_ret' = r.ret
    /\ UNCHANGED <<platform, init_pc, init_ret, lut_regs, enable_reg, wl,
                   icc_scaling_enabled, resources, throttle_vars, runtime_vars>>

\* One call of qcom_cpufreq_hw_acd_write_xfer
AcdXfer(reg, val, reads) ==
    /\ init_pc = "acd_init"
    /\ wlog = <<>>
    /\ LET r == qcom_cpufreq_hw_acd_write_xfer(reg, val, reads)
       IN  /\ wlog' = r.log
           /\ acd_ret' = r.ret
    /\ UNCHANGED <<platform, init_pc, init_ret, lut_regs, enable_reg, wl,
                   icc_scaling_enabled, resources, throttle_vars, runtime_vars>>

NextAcd ==
    \/ \E val \in AutoxferMasks, reads \in PollReads : AcdAutoxfer(val, reads)
    \/ \E reg \in XferRegs, val \in XferVals, reads \in PollReads :
           AcdXfer(reg, val, reads)

SpecAcd == InitAcd /\ [][NextAcd]_vars

(***************************************************************************)
(* C32: the auto-transfer                                                  *)
(***************************************************************************)
\* An auto-transfer was made.
AutoxferDone == wlog # <<>> /\ wlog[1].reg = "acd_auto_xfer_cfg"

\* The reads of the status register reg in the log
StatusReads(reg) ==
    {k \in 1..Len(wlog) : wlog[k].op = "readl" /\ wlog[k].reg = reg}

\* C32: an auto-transfer writes the target bitmask to the config register,
\* then 0 and then 1 to the start register, and only then reads the status
\* register, no more often than the bound allows and not again once bit 0
\* was read set; it returns 0 if and only if bit 0 was read set, and the
\* timeout error otherwise.
C32_AutoxferProtocol ==
    AutoxferDone =>
        /\ Len(wlog) >= 4
        /\ wlog[1].op = "writel" /\ wlog[1].val \in AutoxferMasks
        /\ wlog[2] = Writel("acd_auto_xfer", 0, 0)
        /\ wlog[3] = Writel("acd_auto_xfer", 0, 1)
        /\ StatusReads("acd_auto_xfer_sts") = 4..Len(wlog)
        /\ Len(wlog) - 3 <= MaxPollReads
        /\ \A k \in 4..(Len(wlog) - 1) : ~BitSet(wlog[k].val, 0)
        /\ acd_ret = 0 <=> BitSet(wlog[Len(wlog)].val, 0)
        /\ acd_ret # 0 => acd_ret = -ETIMEDOUT

\* C32 witnesses: an auto-transfer confirmed at its second read, with other
\* bits set at the first; and one that timed out on values without bit 0.
C32_Witness ==
    /\ AutoxferDone
    /\ Len(wlog) = 5
    /\ wlog[4].val = 4096
    /\ acd_ret = 0

C32_WitnessTimeout ==
    /\ AutoxferDone
    /\ acd_ret = -ETIMEDOUT
    /\ wlog[Len(wlog)].val = 32768

(***************************************************************************)
(* C33: the manual transfer                                                *)
(***************************************************************************)
\* A manual transfer was made.
XferDone == wlog # <<>> /\ wlog[1].reg = "acd"

\* The sub-register the control value written in a manual transfer selects:
\* the field above the update-enable bit.
SelectedSubRegister == wlog[3].val \div (2 ^ ACD_WRITE_CTL_SELECT_SHIFT)

\* C33: a manual transfer of the register at offset r writes the value to r,
\* then 0 to the write-control register, then the sub-register r/4 in the
\* select field together with update-enable, and then reads the write-status
\* register until the bit of the sub-register it selected is read set; it
\* returns 0 if and only if that bit was read set within the bound.
C33_XferProtocol ==
    XferDone =>
        /\ Len(wlog) >= 4
        /\ wlog[1].op = "writel" /\ wlog[1].idx \in XferRegs
        /\ wlog[1].val \in XferVals
        /\ wlog[2] = Writel("acd_write_ctl", 0, 0)
        /\ wlog[3].op = "writel" /\ wlog[3].reg = "acd_write_ctl"
        /\ SelectedSubRegister = wlog[1].idx \div 4
        /\ BitSet(wlog[3].val, 0)
        /\ StatusReads("acd_write_sts") = 4..Len(wlog)
        /\ Len(wlog) - 3 <= MaxPollReads
        /\ \A k \in 4..(Len(wlog) - 1) : ~BitSet(wlog[k].val, SelectedSubRegister)
        /\ acd_ret = 0 <=> BitSet(wlog[Len(wlog)].val, SelectedSubRegister)
        /\ acd_ret # 0 => acd_ret = -ETIMEDOUT

\* C33 witnesses: the transfer of the register at offset 52 confirmed by bit
\* 13 after a read that showed bit 12 only; and the transfer of the register
\* at offset 60 timed out though bit 0 and bit 12 were read set.
C33_Witness ==
    /\ XferDone
    /\ wlog[1].idx = 52
    /\ Len(wlog) = 5
    /\ wlog[4].val = 4096
    /\ wlog[5].val = 8192
    /\ acd_ret = 0

C33_WitnessTimeout ==
    /\ XferDone
    /\ wlog[1].idx = 60
    /\ wlog[4].val = 1
    /\ wlog[Len(wlog)].val = 4096
    /\ acd_ret = -ETIMEDOUT

(***************************************************************************)
(* C34: the order of the steps of ACD initialization                       *)
(***************************************************************************)
\* The positions of access a in the log
Pos(a) == {k \in 1..Len(wlog) : wlog[k] = a}

\* The positions of the steps of ACD initialization on msm8998: the four
\* initial values, the config write of the first auto-transfer, the mux
\* switch, the DCVS pulse, the final external-interface value; and of the
\* polls that confirmed a transfer (result 0).
InitialValueWrites ==
    LET a == msm8998_acd_data
    IN  {Writel("acd", a.tl_delay_reg, a.tl_delay_val),
         Writel("acd", a.acd_ctrl_reg, a.acd_ctrl_val),
         Writel("acd", a.softstart_reg, a.softstart_val),
         Writel("acd", a.ext_intf_reg, a.ext_intf0_val)}
FourValueMask == 2 + 4 + 1024 + 4096
MuxSwitch == Pos(Writel("acd", msm8998_acd_data.gfmux_cfg_reg, 1))
DcvsSet == Pos(Writel("acd", msm8998_acd_data.dcvs_sw_reg, 1))
DcvsClear == Pos(Writel("acd", msm8998_acd_data.dcvs_sw_reg, 0))
FinalExtIntf ==
    Pos(Writel("acd", msm8998_acd_data.ext_intf_reg,
               msm8998_acd_data.ext_intf1_val))
AutoxferConfirmed == Pos(PollAcc("acd_auto_xfer_sts", 1))
XferConfirmed(reg) == Pos(PollAcc("acd_write_sts", 2 ^ (reg \div 4)))

\* C34: the clock mux is switched only after the four initial values were
\* written and their auto-transfer was confirmed; the software-DCVS register
\* is set only after the mux switch was confirmed and cleared only after the
\* set was confirmed; the final external-interface value is written only
\* after the clear was confirmed and the settle delay of 1 us has passed.
C34_AcdStepsInOrder ==
    /\ \A m \in MuxSwitch :
          \E p \in AutoxferConfirmed, c \in Pos(Writel("acd_auto_xfer_cfg", 0,
                                                       FourValueMask)) :
              /\ c < p /\ p < m
              /\ \A w \in InitialValueWrites : \E k \in Pos(w) : k < c
    /\ \A s \in DcvsSet :
          \E m \in MuxSwitch,
             p \in XferConfirmed(msm8998_acd_data.gfmux_cfg_reg) :
              m < p /\ p < s
    /\ \A c \in DcvsClear :
          \E s \in DcvsSet,
             p \in XferConfirmed(msm8998_acd_data.dcvs_sw_reg) :
              s < p /\ p < c
    /\ \A f \in FinalExtIntf :
          \E c \in DcvsClear,
             p \in XferConfirmed(msm8998_acd_data.dcvs_sw_reg),
             d \in Pos(Delay(1)) :
              c < p /\ p < d /\ d < f

\* C34 witnesses: ACD initialization ran to its end and the domain is up;
\* and the mux switch timed out, so the DCVS register was never written.
C34_Witness ==
    /\ FinalExtIntf # {}
    /\ acd_ret = 0
    /\ init_pc = "done"

C34_WitnessMuxTimeout ==
    /\ MuxSwitch # {}
    /\ acd_ret = -ETIMEDOUT
    /\ wlog[Len(wlog)].reg = "acd_write_sts"
    /\ wlog[Len(wlog)].val = 32768
    /\ DcvsSet = {}

(***************************************************************************)
(* C35: the last step of ACD initialization                                *)
(***************************************************************************)
\* The bitmask of the last step: the four values and the mux-select bit
FinalMask == FourValueMask + 32768

\* The positions of the config write of the last step
FinalCfgWrite == Pos(Writel("acd_auto_xfer_cfg", 0, FinalMask))

\* C35 as stated: the config write of the last step of ACD initialization is
\* followed by the start pulse (0 then 1) and by the poll of the status
\* register, and if that poll times out ACD initialization fails.
C35_LastStepIsCompleteAutoxfer ==
    \A k \in FinalCfgWrite :
        /\ k + 3 <= Len(wlog)
        /\ wlog[k + 1] = Writel("acd_auto_xfer", 0, 0)
        /\ wlog[k + 2] = Writel("acd_auto_xfer", 0, 1)
        /\ wlog[k + 3].op = "poll" /\ wlog[k + 3].reg = "acd_auto_xfer_sts"
        /\ wlog[k + 3].ret # 0 => acd_ret = -ETIMEDOUT

\* C35 amended: the last step of ACD initialization writes the bitmask with
\* the mux-select bit to the config register and waits the boot time; the
\* start register is not written and no status register is read after that
\* write, and ACD initialization returns 0.
C35_LastStepIsConfigWriteOnly ==
    \A k \in FinalCfgWrite :
        /\ k + 1 <= Len(wlog)
        /\ wlog[k + 1] = Delay(OSM_BOOT_TIME_US)
        /\ \A j \in (k + 1)..Len(wlog) :
              wlog[j].reg \notin {"acd_auto_xfer", "acd_auto_xfer_sts",
                                  "acd_write_sts"}
        /\ \A j \in (k + 2)..Len(wlog) : wlog[j].reg \notin AcdRegNames
        /\ acd_ret = 0

\* C35 witness: ACD initialization made its last step and the domain was
\* enabled after it.
C35_Witness ==
    /\ FinalCfgWrite # {}
    /\ EnableWrites # {}
    /\ init_pc = "done"

(***************************************************************************)
(* C36: the order of the first setup writes                                *)
(***************************************************************************)
\* The positions of the writes to register reg
RegWrites(reg) ==
    {k \in 1..Len(wlog) : wlog[k].op = "writel" /\ wlog[k].reg = reg}

\* The positions of the accesses of table programming: writes of LUT rows
\* and firmware calls
TableProgramming ==
    {k \in 1..Len(wlog) :
        \/ wlog[k].op = "writel" /\ wlog[k].reg \in LutRowRegs
        \/ wlog[k].op = "scm"}

\* The positions of the writes of the boost timers
BoostTimerWrites ==
    RegWrites("reg_cc_boost_timer") \cup RegWrites("reg_dcvs_boost_timer")
        \cup RegWrites("reg_ps_boost_timer")

\* Every access of A is made, and before every access of B
Precedes(A, B) == A # {} /\ B # {} /\ \A a \in A, b \in B : a < b

\* Bring-up wrote the setup registers and initialization succeeded.
BringupSucceeded == init_pc = "done" /\ EnableWrites # {}

\* C36 as stated: on a successful bring-up the cycle-counter enable follows
\* table programming, then come the core-count hysteresis, the
\* load-management frequency and voltage hysteresis, core-retention-as-
\* active, the enable of core-count DCVS, the enable of load-management
\* voting and the boost timers, in that order.
C36_HysteresisBeforeRetention ==
    BringupSucceeded =>
        /\ Precedes(TableProgramming, RegWrites("reg_cycle_counter"))
        /\ Precedes(RegWrites("reg_cycle_counter"), RegWrites("reg_spm_cc_hyst"))
        /\ Precedes(RegWrites("reg_spm_cc_hyst"),
                    RegWrites("reg_llm_freq_vote_hyst"))
        /\ Precedes(RegWrites("reg_llm_freq_vote_hyst"),
                    RegWrites("reg_llm_volt_vote_hyst"))
        /\ Precedes(RegWrites("reg_llm_volt_vote_hyst"),
                    RegWrites("reg_spm_core_ret_map"))
        /\ Precedes(RegWrites("reg_spm_core_ret_map"),
                    RegWrites("reg_spm_cc_dcvs_dis"))
        /\ Precedes(RegWrites("reg_spm_cc_dcvs_dis"),
                    RegWrites("reg_llm_intf_dcvs_dis"))
        /\ Precedes(RegWrites("reg_llm_intf_dcvs_dis"), BoostTimerWrites)

\* C36 amended: on a successful bring-up the cycle-counter enable follows
\* table programming, then come the core-count hysteresis, core-retention-
\* as-active, the enable of core-count DCVS, the load-management frequency
\* and then voltage hysteresis, the enable of load-management voting and the
\* boost timers, in that order, each register written once.
C36_RetentionBeforeLlmHysteresis ==
    BringupSucceeded =>
        /\ Precedes(TableProgramming, RegWrites("reg_cycle_counter"))
        /\ Precedes(RegWrites("reg_cycle_counter"), RegWrites("reg_spm_cc_hyst"))
        /\ Precedes(RegWrites("reg_spm_cc_hyst"),
                    RegWrites("reg_spm_core_ret_map"))
        /\ Precedes(RegWrites("reg_spm_core_ret_map"),
                    RegWrites("reg_spm_cc_dcvs_dis"))
        /\ Precedes(RegWrites("reg_spm_cc_dcvs_dis"),
                    RegWrites("reg_llm_freq_vote_hyst"))
        /\ Precedes(RegWrites("reg_llm_freq_vote_hyst"),
                    RegWrites("reg_llm_volt_vote_hyst"))
        /\ Precedes(RegWrites("reg_llm_volt_vote_hyst"),
                    RegWrites("reg_llm_intf_dcvs_dis"))
        /\ Precedes(RegWrites("reg_llm_intf_dcvs_dis"), BoostTimerWrites)
        /\ \A reg \in {"reg_cycle_counter", "reg_spm_cc_hyst",
                       "reg_spm_core_ret_map", "reg_spm_cc_dcvs_dis",
                       "reg_llm_freq_vote_hyst", "reg_llm_volt_vote_hyst",
                       "reg_llm_intf_dcvs_dis"} :
              Cardinality(RegWrites(reg)) = 1

\* C36 witness: a bring-up succeeded with the table programmed through the
\* firmware and the setup registers written.
C36_Witness ==
    /\ BringupSucceeded
    /\ \E k \in TableProgramming : wlog[k].op = "scm"
    /\ RegWrites("reg_llm_volt_vote_hyst") # {}
    /\ BoostTimerWrites # {}

(***************************************************************************)
(* C37: the row the MEM-ACC L-value is taken from                          *)
(***************************************************************************)
\* The firmware calls that wrote the MEM-ACC L-value
LvalWrites ==
    {k \in 1..Len(wlog) : wlog[k].op = "scm" /\ wlog[k].idx = SEQUENCER_REG(SEQ_MEM_ACC_LVAL)}

\* C37: whenever table programming reaches the write of the MEM-ACC L-value,
\* the last of the four MEM-ACC indices, as written to the sequencer, is the
\* index of a row of the table (0 <= index < number of entries), and the
\* L-value written is the L-value field of that row.
C37_LvalRowInTable ==
    \A k \in LvalWrites :
        /\ Len(wl.acc_val) = SEQ_MEM_ACC_MAX_LEVELS
        /\ ScmVals(SEQ_MEMACC_REG(3)) = {wl.acc_val[4]}
        /\ wl.acc_val[4] >= 0
        /\ wl.acc_val[4] < wl.num_entries
        /\ wl.num_entries <= Len(wl.hw_tbl)
        /\ wlog[k].val = LutLval(wl.hw_tbl[wl.acc_val[4] + 1].freq_lut_val)

\* C37 witnesses: the L-value was written with the pairs found in the table;
\* and with the upper pair moved down by a customized corner.
C37_Witness ==
    /\ LvalWrites # {}
    /\ ~wl.custom
    /\ wl.acc_val[4] = wl.num_entries - 1
    /\ init_pc = "done"

C37_WitnessCustom ==
    /\ LvalWrites # {}
    /\ wl.custom
    /\ wl.acc_val[4] < wl.acc_std[4]
    /\ init_pc = "done"

(***************************************************************************)
(* C38: the reader and the size of the row array                           *)
(***************************************************************************)
\* C38: when the reader succeeds, the entry count it returns equals the
\* count the platform advertised, and no row was stored at an index at or
\* above that count, the size of the array allocated for the rows. The code
\* violates it: its loop runs while i <= gpd_opp_cnt, so a platform that
\* yields one entry more than it advertised has that entry stored at index
\* gpd_opp_cnt, one past the array, and counted.
C38_ReaderStaysInArray ==
    ReaderSucceeded =>
        /\ wl.num_entries = platform.gpd_opp_cnt
        /\ Len(wl.hw_tbl) <= platform.gpd_opp_cnt
        /\ ~wl.oob

(***************************************************************************)
(* C39: reading back the table bring-up programmed, up to a full LUT       *)
(***************************************************************************)
\* n OPPs one L-value apart from 16 * 19.2 MHz and 10 mV apart from 500 mV,
\* the spare value rising at the second and at the third
ReadbackOpps(n) ==
    [i \in 1..n |->
        [rate |-> XO_RATE_KHZ * (15 + i),
         uV |-> 500000 + 10000 * (i - 1),
         np |-> TRUE,
         override |-> 16 + i,
         spare |-> IF i < 3 THEN i ELSE 3,
         pll_div |-> -1]]

\* Tables of 3..MaxOpps corners, of one corner less than the LUT has slots,
\* and of as many corners as the LUT has slots
ReadbackPlatforms ==
    {Platform("msm8998", "ok", n, ReadbackOpps(n), 750000, 0) :
        n \in (3..MaxOpps) \cup {LUT_MAX_ENTRIES - 1, LUT_MAX_ENTRIES}}

InitReadback ==
    /\ ThrottleIdle
    /\ platform \in ReadbackPlatforms
    /\ init_pc = "start"
    /\ init_ret = 0
    /\ wlog = <<>>
    /\ lut_regs = BlankLut
    /\ enable_reg = 0
    /\ wl = NoWriteLut
    /\ acd_ret = 0
    /\ icc_scaling_enabled = FALSE
    /\ resources = NoResources
    /\ perf_state = 0
    /\ freq_table = [i \in 0..LUT_MAX_ENTRIES |-> 0]
    /\ run_op = "none"
    /\ last_write = "none"
    /\ last_index = 0
    /\ get_ret = 0
    /\ set_ret = 0
    /\ bw_vote = NoBwVote

SpecReadback == InitReadback /\ [][Next]_vars

\* The frequency read_lut resolves from LUT slot i, in kHz
ResolvedKhz(i) ==
    IF LutSrc(platform.soc, lut_regs[i].freq_lut_val) # 0
    THEN XO_RATE_KHZ * LutLval(lut_regs[i].freq_lut_val)
    ELSE CPU_HW_RATE_KHZ

\* Bring-up programmed a table of 2 to 40 rows whose resolved frequencies
\* are pairwise distinct, and qcom_cpufreq_hw_read_lut has read it back.
ReadBackAfterBringup ==
    /\ WriteLutSucceeded
    /\ init_pc \in {"lmh_init", "done"}
    /\ wl.num_entries >= 2 /\ wl.num_entries <= LUT_MAX_ENTRIES
    /\ \A i, j \in 0..(wl.num_entries - 1) :
          i # j => ResolvedKhz(i) # ResolvedKhz(j)

\* The slots of the LUT read_lut read
SlotsRead ==
    {wlog[k].idx : k \in {j \in 1..Len(wlog) :
                             wlog[j].op = "readl" /\ wlog[j].reg = "freq_lut"}}

\* C39: when bring-up has programmed a table of n rows (2 <= n <= 40) with
\* pairwise distinct resolved frequencies, the frequency table read back has
\* its end marker at index n, which is at most 40: each of the n rows has an
\* entry, no padding slot has one, and the first padding slot (if n < 40) is
\* the last slot read.
C39_EndMarkerAtEntryCount ==
    ReadBackAfterBringup =>
        /\ freq_table[wl.num_entries] = CPUFREQ_TABLE_END
        /\ EntryCount(freq_table) = wl.num_entries
        /\ EntryCount(freq_table) <= LUT_MAX_ENTRIES
        /\ \A i \in 0..(wl.num_entries - 1) :
              freq_table[i] \in {ResolvedKhz(i), CPUFREQ_ENTRY_INVALID}
        /\ \A i \in (wl.num_entries + 1)..LUT_MAX_ENTRIES : freq_table[i] = 0
        /\ SlotsRead = 0..Min(wl.num_entries, LUT_MAX_ENTRIES - 1)

\* C39 witnesses: a table that fills the LUT, with no padding slot, was read
\* back; and a table one row short of it, ended by the one padding slot.
C39_Witness ==
    /\ ReadBackAfterBringup
    /\ wl.num_entries = LUT_MAX_ENTRIES
    /\ freq_table[LUT_MAX_ENTRIES - 1] = ResolvedKhz(LUT_MAX_ENTRIES - 1)
    /\ init_pc = "done"

C39_WitnessPadding ==
    /\ ReadBackAfterBringup
    /\ wl.num_entries = LUT_MAX_ENTRIES - 1
    /\ ResolvedKhz(LUT_MAX_ENTRIES - 1) = ResolvedKhz(LUT_MAX_ENTRIES - 2)
    /\ init_pc = "done"

(***************************************************************************)
(* C40: the range of the vote frequency in Hz                              *)
(***************************************************************************)
\* C40: for every vote a poll reads, the frequency it computes is the vote
\* times 19200 kHz, and its conversion to Hz does not wrap around 32 bits:
\* the Hz value divided by 1000 is that frequency again, so the value
\* resolved against the operating-point table is that of the vote. The code
\* violates it: the product freq * HZ_PER_KHZ is taken in 32 bits and wraps
\* for every vote of 224 or more (see C13).
C40_VoteHzDoesNotWrap ==
    [][PollPublishes =>
          /\ \E v \in 0..VOTE_MASK : poll_freq' = v * VOTE_KHZ
          /\ FreqHzFloorKhz(poll_freq') = poll_freq'
          /\ FreqHzCeilKhz(poll_freq') = poll_freq'
          /\ throttled_freq' = VoteResolvedByFloor(opp_table, poll_freq')]_vars

====
